---- MODULE Spec2Model ----
(***************************************************************************)
(* Model of the agent loop of telegram-bot (package agent: Agent.Chat,     *)
(* sendRequest, executeTool, parseXMLToolCall, cleanResponse) and of the   *)
(* tool registry (package tools: Registry).                                *)
(*                                                                         *)
(* Strings are sequences of tokens.  The tokens "<function=",              *)
(* "<parameter=", "</parameter", ">" and " " stand for exactly those       *)
(* characters; every other token is a run of text that holds no '<' and no *)
(* '>' and neither begins nor ends with white space.  The closing tag      *)
(* "</parameter>" is the two tokens "</parameter", ">": a search for ">"   *)
(* finds the '>' that ends a closing tag, as it does in the Go strings.    *)
(***************************************************************************)
EXTENDS Integers, Sequences, FiniteSets, TLC

\* The program's state: the registry, whether the caller's context is
\* cancelled, and the locals of one Chat invocation (pc is its position, parsed
\* the toolName and args of parseXMLToolCall, ret what Chat returned).
VARIABLES registry, ctxDone, pc, userMessage, messages, i, resp, parsed, k,
          ret

\* History of the invocation: the number of sendRequest calls and of responses
\* received, whether a sendRequest failed, the last request posted, and the
\* tool executions that returned.
VARIABLES calls, received, transportFailed, sent, execLog

\* The locals and the history of a second Chat invocation, run by another
\* goroutine, while it is not the one taking steps; and the history of the
\* registry: the tools passed to Register, in the order of the calls.
VARIABLES parked, regLog

\* The last run of a subprocess by a tool: the tool, what the subprocess
\* wrote and how it ended, and what the tool returned for it.
VARIABLES run

\* The configuration main loaded, with the environment it was loaded from.
VARIABLES cfg

\* The last Execute of a tool made directly (its arguments, the operations it
\* performed and what it returned), and the files of the Python workspace.
VARIABLES call, files

\* The calendar tool main constructed (with its mutex and the token file it
\* names), and the goroutines that are inside one of its methods.
VARIABLES calendarTool, goroutines

\* main's update loop with the channel of the shutdown signals, and the
\* goroutines it started, one for each message, in the order of their start.
VARIABLES mainLoop, handlers

vars == <<registry, ctxDone, pc, userMessage, messages, i, resp, parsed, k, ret,
          calls, received, transportFailed, sent, execLog, parked, regLog,
          run, cfg, call, files, calendarTool, goroutines, mainLoop,
          handlers>>

\* The state of the tools themselves.
outside == <<call, files, calendarTool, goroutines, mainLoop, handlers>>

\* The calendar tool and its callers.
calendar == <<calendarTool, goroutines>>

\* The update loop and its handlers.
bot == <<mainLoop, handlers>>

(***************************************************************************)
(* Bounds of the model.                                                    *)
(***************************************************************************)
\* The longest text-only content, in chunks (see Chunks).
MaxChunks == 3

\* The Register calls made after those of main.
MaxRegistrations == 3

\* The longest filename passed to the Python tool, in elements and
\* separators.
MaxPathLen == 3

\* The goroutines that call the calendar tool at the same time.
NumGoroutines == 2

\* The updates the bot receives.
MaxUpdates == 2

\* How far beyond a tool's output limit the sizes of a subprocess's streams
\* go, in bytes (see Sizes).
MaxExcess == 1

\* Rounds in which the model backend and the tools answer freely; afterwards
\* the backend repeats its previous response (or ends) and tools succeed.
MaxFree == 2

(***************************************************************************)
(* Program constants.                                                      *)
(***************************************************************************)
maxToolCalls == 20

\* Output limits of the tools, in bytes.
maxOutputBytes == 50000
maxOCIOutput == 100000

\* Timeouts of the tools and of the agent's HTTP client, in seconds.
bashTimeout == 60
pythonTimeout == 60
ociTimeout == 120
clientTimeout == 120

\* The length runTestsInternal cuts the output of pytest at.
testOutputLimit == 3000

FN == "<function="
PM == "<parameter="
CP == "</parameter"
GT == ">"
SP == " "

systemPrompt == <<"You are a helpful AI assistant with access to tools.">>

(***************************************************************************)
(* Package strings.                                                        *)
(***************************************************************************)
\* s[a:b] with Go's 0-based, half-open bounds.
Slice(s, a, b) == SubSeq(s, a + 1, b)

HasPrefix(s, prefix) ==
    /\ Len(prefix) <= Len(s)
    /\ SubSeq(s, 1, Len(prefix)) = prefix

\* strings.Index: the 0-based index of the first occurrence of substr, or -1.
Index(s, substr) ==
    LET hits == {p \in 0..(Len(s) - Len(substr)) :
                    HasPrefix(Slice(s, p, Len(s)), substr)}
    IN  IF hits = {} THEN -1
        ELSE CHOOSE p \in hits : \A q \in hits : p <= q

Contains(s, substr) == Index(s, substr) >= 0

RECURSIVE TrimLeft(_)
TrimLeft(s) ==
    IF s # <<>> /\ Head(s) = SP THEN TrimLeft(Tail(s)) ELSE s

RECURSIVE TrimRight(_)
TrimRight(s) ==
    IF s # <<>> /\ s[Len(s)] = SP
    THEN TrimRight(SubSeq(s, 1, Len(s) - 1)) ELSE s

TrimSpace(s) == TrimRight(TrimLeft(s))

(***************************************************************************)
(* Go values: errors and maps.                                             *)
(***************************************************************************)
Nil == [isNil |-> TRUE, msg |-> <<>>]
Errorf(msg) == [isNil |-> FALSE, msg |-> msg]

EmptyMap == [x \in {} |-> <<>>]
MapPut(m, key, val) ==
    [x \in (DOMAIN m) \cup {key} |-> IF x = key THEN val ELSE m[x]]

(***************************************************************************)
(* Package tools: the registry (a map from tool name to tool).             *)
(***************************************************************************)
\* A tool: what Name(), Description() and Parameters() return.
ToolOf(name, description, parameters) ==
    [name |-> name, description |-> description, parameters |-> parameters]

\* A parameter schema: the names of the properties.
Schema(properties) == [type |-> "object", properties |-> properties]

Tool(name) == ToolOf(name, <<"built in">>, Schema({}))

NewRegistry == EmptyMap

\* Faulty variant: a name that is taken keeps its tool.
RegisterKeepsFirst(r, tool) ==
    IF tool.name \in DOMAIN r THEN r ELSE MapPut(r, tool.name, tool)

Register(r, tool) == MapPut(r, tool.name, tool)

Get(r, name) ==
    IF name \in DOMAIN r THEN [tool |-> r[name], ok |-> TRUE]
    ELSE [tool |-> Tool(<<>>), ok |-> FALSE]

\* Registry.All: the registered tools; the order of Go's map iteration is left
\* out.
All(r) == {r[n] : n \in DOMAIN r}

\* Faulty variant: the bundle is the one built when the agent was constructed.
ToOllamaFormatCached(r) ==
    {[type |-> "function",
      function |-> [name |-> n, description |-> <<"built in">>,
                    parameters |-> Schema({})]] :
        n \in { <<"get_current_time">>, <<"python">>, <<"bash">>,
                <<"scrape">>, <<"oci">>, <<"get_calendar_events">> }}

\* One entry per registered tool; the order of Go's map iteration is left out.
ToOllamaFormat(r) ==
    {[type |-> "function",
      function |-> [name |-> r[n].name, description |-> r[n].description,
                    parameters |-> r[n].parameters]] : n \in DOMAIN r}

\* The registrations of main, in its order.
StartupTools ==
    << Tool(<<"get_current_time">>), Tool(<<"python">>), Tool(<<"bash">>),
       Tool(<<"scrape">>), Tool(<<"oci">>), Tool(<<"get_calendar_events">>) >>

RECURSIVE RegisterAll(_, _)
RegisterAll(r, tools) ==
    IF tools = <<>> THEN r
    ELSE RegisterAll(Register(r, Head(tools)), Tail(tools))

(***************************************************************************)
(* Package agent: messages.                                                *)
(***************************************************************************)
Message(role, content, toolCalls, toolCallID) ==
    [Role |-> role, Content |-> content, ToolCalls |-> toolCalls,
     ToolCallID |-> toolCallID]

\* Arguments is the raw JSON payload: absent, a JSON object, or bytes that do
\* not decode into a map.
ToolCall(id, name, arguments) ==
    [ID |-> id, Name |-> name, Arguments |-> arguments]

NoArguments == [raw |-> "empty", object |-> EmptyMap]
JSONObject(m) == [raw |-> "object", object |-> m]
BadJSON == [raw |-> "malformed", object |-> EmptyMap]

\* Faulty variant: a payload that does not decode is taken as an empty map.
UnmarshalLenient(arguments) == [args |-> arguments.object, err |-> Nil]

\* json.Unmarshal(tc.Function.Arguments, &args)
Unmarshal(arguments) ==
    IF arguments.raw = "malformed"
    THEN [args |-> EmptyMap,
          err |-> Errorf(<<"invalid character">>)]
    ELSE [args |-> arguments.object, err |-> Nil]

\* fmt.Sprintf("Error: %v", err)
ErrorText(err) == <<"Error:", SP>> \o err.msg

(***************************************************************************)
(* parseXMLToolCall: the textual fallback parser.                          *)
(***************************************************************************)
\* Faulty variant: only the first parameter is taken.
parseParametersFirstOnly(remaining, args) ==
    LET paramStart == Index(remaining, <<PM>>)
        nameStart  == paramStart + Len(<<PM>>)
        nameEnd    == Index(Slice(remaining, nameStart, Len(remaining)), <<GT>>)
        valueStart == nameStart + nameEnd + 1
        valueEnd   == Index(Slice(remaining, valueStart, Len(remaining)),
                            <<CP, GT>>)
    IN  IF paramStart = -1 \/ nameEnd = -1 \/ valueEnd = -1 THEN args
        ELSE MapPut(args, Slice(remaining, nameStart, nameStart + nameEnd),
                    TrimSpace(Slice(remaining, valueStart,
                                    valueStart + valueEnd)))

\* The for loop over "<parameter=" ... "</parameter>" pairs: the arguments
\* collected when the loop breaks.
RECURSIVE parseParameters(_, _)
parseParameters(remaining, args) ==
    LET paramStart == Index(remaining, <<PM>>)
        nameStart  == paramStart + Len(<<PM>>)
        nameEnd    == Index(Slice(remaining, nameStart, Len(remaining)), <<GT>>)
        paramName  == Slice(remaining, nameStart, nameStart + nameEnd)
        valueStart == nameStart + nameEnd + 1
        valueEnd   == Index(Slice(remaining, valueStart, Len(remaining)),
                            <<CP, GT>>)
        paramValue == TrimSpace(Slice(remaining, valueStart,
                                      valueStart + valueEnd))
    IN  IF paramStart = -1 THEN args
        ELSE IF nameEnd = -1 THEN args
        ELSE IF valueEnd = -1 THEN args
        ELSE parseParameters(
                 Slice(remaining, valueStart + valueEnd + Len(<<CP, GT>>),
                       Len(remaining)),
                 MapPut(args, paramName, paramValue))

NotParsed == [toolName |-> <<>>, args |-> EmptyMap, ok |-> FALSE]

\* Faulty variant: a match without parameters is a tool call.
parseXMLToolCallZeroParams(content) ==
    LET start     == Index(content, <<FN>>)
        nameStart == start + Len(<<FN>>)
        nameEnd   == Index(Slice(content, nameStart, Len(content)), <<GT>>)
        toolName  == Slice(content, nameStart, nameStart + nameEnd)
        args      == parseParameters(
                         Slice(content, nameStart + nameEnd, Len(content)),
                         EmptyMap)
    IN  IF ~Contains(content, <<FN>>) THEN NotParsed
        ELSE IF nameEnd = -1 THEN NotParsed
        ELSE [toolName |-> toolName, args |-> args, ok |-> TRUE]

parseXMLToolCall(content) ==
    LET start     == Index(content, <<FN>>)
        nameStart == start + Len(<<FN>>)
        nameEnd   == Index(Slice(content, nameStart, Len(content)), <<GT>>)
        toolName  == Slice(content, nameStart, nameStart + nameEnd)
        args      == parseParameters(
                         Slice(content, nameStart + nameEnd, Len(content)),
                         EmptyMap)
    IN  IF ~Contains(content, <<FN>>) THEN NotParsed
        ELSE IF nameEnd = -1 THEN NotParsed
        ELSE IF Cardinality(DOMAIN args) = 0 THEN NotParsed
        ELSE [toolName |-> toolName, args |-> args, ok |-> TRUE]

(***************************************************************************)
(* cleanResponse                                                           *)
(***************************************************************************)
CouldNotComplete ==
    <<"I tried to run code but encountered an issue. Please try rephrasing your request.">>

\* Faulty variant: content without a function tag is trimmed too.
cleanResponseTrimmed(content) ==
    IF Contains(content, <<FN>>) THEN CouldNotComplete ELSE TrimSpace(content)

cleanResponse(content) ==
    LET idx    == Index(content, <<FN>>)
        before == TrimSpace(Slice(content, 0, idx))
    IN  IF idx > 0 /\ before # <<>> THEN before
        ELSE IF Contains(content, <<FN>>) THEN CouldNotComplete
        ELSE content

(***************************************************************************)
(* The environment: what the model backend answers and what tools return.  *)
(***************************************************************************)
CF == "</function"

Utterances == { <<"what time is it">> }

TimeName == <<"get_current_time">>
BashName == <<"bash">>
UnknownName == <<"nope">>

LsArgs == MapPut(EmptyMap, <<"command">>, <<"ls">>)
LsTimeoutArgs == MapPut(LsArgs, <<"timeout">>, <<"5">>)

\* Content holding a well-formed textual call of bash with two parameters.
TextCallContent ==
    <<"Let me check.", SP, FN, "bash", GT,
      PM, "command", GT, SP, "ls", SP, CP, GT,
      PM, "timeout", GT, "5", CP, GT, CF, GT>>

PlainAnswer == Message("assistant", <<SP, "It is noon.", SP>>, <<>>, "")

\* Three structured invocations A, B, C; B names a tool that is not registered.
ThreeCalls ==
    Message("assistant", <<>>,
            << ToolCall("A", TimeName, NoArguments),
               ToolCall("B", UnknownName, NoArguments),
               ToolCall("C", BashName, JSONObject(LsArgs)) >>, "")

\* Structured invocations without ids (as Ollama sends them): an undecodable
\* payload, an unknown tool and a registered one, beside content that holds
\* textual markup.
BadArgsCalls ==
    Message("assistant", TextCallContent,
            << ToolCall("", BashName, BadJSON),
               ToolCall("", UnknownName, NoArguments),
               ToolCall("", TimeName, NoArguments) >>, "")

\* One structured invocation of the current-time tool.
TimeCall ==
    Message("assistant", <<>>, << ToolCall("T", TimeName, NoArguments) >>, "")

TextCall == Message("assistant", TextCallContent, <<>>, "")

TextUnknownCall ==
    Message("assistant",
            <<FN, "nope", GT, PM, "x", GT, "1", CP, GT, CF, GT>>, <<>>, "")

TextUnterminated ==
    Message("assistant",
            <<"Sure.", SP, FN, "bash", GT, PM, "command", GT, "ls">>, <<>>, "")

TextPureFragment == Message("assistant", <<SP, FN, "bash">>, <<>>, "")

TextZeroParams ==
    Message("assistant", <<FN, "get_current_time", GT, CF, GT>>, <<>>, "")

Responses ==
    { PlainAnswer, ThreeCalls, BadArgsCalls, TimeCall, TextCall, TextUnknownCall,
      TextUnterminated, TextPureFragment, TextZeroParams }

\* The pieces text-only contents are built from: text, white space, a function
\* tag with and without its '>', a parameter tag with and without its '>',
\* the closing parameter tag, and a whole well-formed parameter.
Chunks ==
    { <<"Hi">>, <<SP>>, <<FN, "bash", GT>>, <<FN, "bash">>,
      <<PM, "command", GT>>, <<PM, "command">>, <<CP, GT>>,
      <<PM, "timeout", GT, "5", CP, GT>> }

RECURSIVE ContentsOf(_)
ContentsOf(n) ==
    IF n = 0 THEN { <<>> }
    ELSE LET shorter == ContentsOf(n - 1)
         IN  shorter \cup { c \o ch : c \in shorter, ch \in Chunks }

TextResponses ==
    { Message("assistant", c, <<>>, "") : c \in ContentsOf(MaxChunks) }

\* What a tool's Execute may return: a result and no error, or an error (the
\* result beside an error is not empty for tools that return both).
Succeeded == [result |-> <<"ok">>, err |-> Nil]
Failed == [result |-> <<"partial output">>, err |-> Errorf(<<"exit status 1">>)]
ToolOutcomes == { Succeeded, Failed }

\* The errors of sendRequest: the call failed (also: the context was cancelled
\* or timed out), a status other than 200, a body that does not parse.
TransportErrors ==
    { Errorf(<<"calling Ollama: connection refused">>),
      Errorf(<<"Ollama returned status 500">>) }

NoMessage == Message("", <<>>, <<>>, "")
NoReturn == [text |-> <<>>, err |-> Nil, returned |-> FALSE]
Return(text, err) == [text |-> text, err |-> err, returned |-> TRUE]

\* No tool has run a subprocess.
NoRun == [tool |-> <<>>]

\* An OAuth token (nil, or the one obtained from source) and the calendar
\* service constructed over a token's client (nil before).
NoToken == [isNil |-> TRUE, source |-> <<>>]
Token(source) == [isNil |-> FALSE, source |-> source]
NoService == [isNil |-> TRUE, token |-> NoToken]
NewService(token) == [isNil |-> FALSE, token |-> token]

\* The mutex of the tool: the goroutine that holds it for writing (0: none)
\* and those that hold it for reading.
Unlocked == [writer |-> 0, readers |-> {}]

\* NewCalendarTool: the service is nil.  stored is the content of the file
\* that tokenFile names.
NewCalendarTool(clientID, clientSecret, stored) ==
    [config |-> [ClientID |-> clientID, ClientSecret |-> clientSecret],
     stored |-> stored, mu |-> Unlocked, service |-> NoService]

\* A goroutine: the method it is in and its position there, its locals token
\* and service, what the method returned, and whether it assigned c.service.
Outside ==
    [method |-> "", pc |-> "out", token |-> NoToken, service |-> NoService,
     ret |-> NoReturn, wrote |-> FALSE]

Goroutines == 1..NumGoroutines

\* main before its update loop: the channel of the signals is empty and the
\* goroutine that waits for a signal is waiting; no update was received.
EnterLoop ==
    [pc |-> "select", sigChan |-> 0, watcher |-> "waiting", received |-> 0]

NoGoroutines == [g \in Goroutines |-> Outside]

\* No tool has been called directly; the workspace holds no file.
NoCall ==
    [tool |-> <<>>, args |-> EmptyMap, ops |-> <<>>,
     result |-> [text |-> <<>>, err |-> Nil], tested |-> [exit |-> "none"]]

NoFiles == [path \in {} |-> <<>>]

\* The locals and the history of a Chat invocation that has not started.
FreshLocals ==
    [pc |-> "idle", userMessage |-> <<>>, messages |-> <<>>, i |-> 0,
     resp |-> NoMessage, parsed |-> NotParsed, k |-> 0, ret |-> NoReturn,
     calls |-> 0, received |-> 0, transportFailed |-> FALSE,
     sent |-> [Messages |-> <<>>, Tools |-> {}], execLog |-> <<>>]

(***************************************************************************)
(* config.Load.  The environment gives each variable a value or leaves it  *)
(* unset; os.Getenv returns the empty string for an unset variable.        *)
(***************************************************************************)
\* The variables Load reads with getEnvOrDefault.
DefaultedKeys ==
    {"OLLAMA_URL", "OLLAMA_MODEL", "GOOGLE_REDIRECT_URL", "GOOGLE_TOKEN_FILE",
     "PYTHON_WORKSPACE"}

Unset == [set |-> FALSE, value |-> ""]

SetTo(value) == [set |-> TRUE, value |-> value]

\* The environments of the process: each variable unset, set to the empty
\* string, or set to a value of the operator's.
Environs == [DefaultedKeys -> {Unset, SetTo(""), SetTo("custom")}]

NoEnviron == [key \in DefaultedKeys |-> Unset]

Getenv(environ, key) == IF environ[key].set THEN environ[key].value ELSE ""

getEnvOrDefault(environ, key, defaultValue) ==
    IF Getenv(environ, key) # "" THEN Getenv(environ, key) ELSE defaultValue

\* The defaults Load passes to getEnvOrDefault.
LoadDefaults ==
    [OLLAMA_URL |-> "http://localhost:11434/api/chat",
     OLLAMA_MODEL |-> "qwen3-coder:30b",
     GOOGLE_REDIRECT_URL |-> "urn:ietf:wg:oauth:2.0:oob",
     GOOGLE_TOKEN_FILE |-> "google_token.json",
     PYTHON_WORKSPACE |-> "workspace"]

\* The defaults of the README's configuration table.
DocumentedDefaults ==
    [OLLAMA_URL |-> "http://localhost:11434/api/chat",
     OLLAMA_MODEL |-> "qwen3:8b",
     GOOGLE_REDIRECT_URL |-> "urn:ietf:wg:oauth:2.0:oob",
     GOOGLE_TOKEN_FILE |-> "google_token.json",
     PYTHON_WORKSPACE |-> "workspace"]

NotLoaded == [loaded |-> FALSE]

Load(environ) ==
    [loaded |-> TRUE,
     environ |-> environ,
     config |-> [key \in DefaultedKeys |->
                    getEnvOrDefault(environ, key, LoadDefaults[key])]]

(***************************************************************************)
(* Initial state: the agent is constructed over the populated registry.    *)
(***************************************************************************)
Init ==
    /\ parked = FreshLocals
    /\ regLog = StartupTools
    /\ registry = RegisterAll(NewRegistry, StartupTools)
    /\ ctxDone = FALSE
    /\ run = NoRun
    /\ cfg = Load(NoEnviron)
    /\ call = NoCall
    /\ files = NoFiles
    /\ calendarTool = NewCalendarTool(<<>>, <<>>, NoToken)
    /\ goroutines = NoGoroutines
    /\ mainLoop = EnterLoop
    /\ handlers = <<>>
    /\ pc = "idle"
    /\ userMessage = <<>>
    /\ messages = <<>>
    /\ i = 0
    /\ resp = NoMessage
    /\ parsed = NotParsed
    /\ k = 0
    /\ ret = NoReturn
    /\ calls = 0
    /\ received = 0
    /\ transportFailed = FALSE
    /\ sent = [Messages |-> <<>>, Tools |-> {}]
    /\ execLog = <<>>

(***************************************************************************)
(* Agent.executeTool up to the call of tool.Execute: the lookup in the     *)
(* registry and the decoding of the argument payload.  run says whether    *)
(* Execute is called (with args); otherwise err is what executeTool        *)
(* returns.                                                                *)
(***************************************************************************)
\* Faulty variant: the registry lookup is skipped.
executeToolNoLookup(r, tc) ==
    [run |-> TRUE, args |-> tc.Arguments.object, err |-> Nil]

executeTool(r, tc) ==
    LET got     == Get(r, tc.Name)
        decoded == IF tc.Arguments.raw # "empty"
                   THEN Unmarshal(tc.Arguments)
                   ELSE [args |-> EmptyMap, err |-> Nil]
    IN  IF ~got.ok
        THEN [run |-> FALSE, args |-> EmptyMap,
              err |-> Errorf(<<"unknown tool:", SP>> \o tc.Name)]
        ELSE IF ~decoded.err.isNil
        THEN [run |-> FALSE, args |-> EmptyMap,
              err |-> Errorf(<<"parsing tool arguments:", SP>>
                             \o decoded.err.msg)]
        ELSE [run |-> TRUE, args |-> decoded.args, err |-> Nil]

\* Faulty variant: the error of Execute is dropped and the result is fed back.
ToolMessageDropsError(tc, result, err) ==
    Message("tool", result, <<>>, tc.ID)

\* Faulty variant: the result returned beside an error is fed back after it.
ToolMessageKeepsResult(tc, result, err) ==
    Message("tool",
            IF ~err.isNil THEN ErrorText(err) \o <<SP>> \o result ELSE result,
            <<>>, tc.ID)

\* The tool-role message Chat appends for invocation tc (structured path).
ToolMessage(tc, result, err) ==
    Message("tool", IF ~err.isNil THEN ErrorText(err) ELSE result, <<>>, tc.ID)

\* Faulty variant: the assistant message is not appended before the tool result.
ParsedMessagesToolOnly(content, result, err) ==
    << Message("tool", IF ~err.isNil THEN ErrorText(err) ELSE result, <<>>,
               "parsed") >>

\* Faulty variant: the tool-role message of a parsed call carries no id.
ParsedMessagesNoID(content, result, err) ==
    << Message("assistant", content, <<>>, ""),
       Message("tool", IF ~err.isNil THEN ErrorText(err) ELSE result, <<>>,
               "") >>

\* The two messages Chat appends after a parsed (textual) call.
ParsedMessages(content, result, err) ==
    << Message("assistant", content, <<>>, ""),
       Message("tool", IF ~err.isNil THEN ErrorText(err) ELSE result, <<>>,
               "parsed") >>

\* Faulty variant: the loop runs once more.
LoopCondOffByOne(n) == n <= maxToolCalls

\* The condition of Chat's for loop.
LoopCond(n) == n < maxToolCalls

\* Faulty variant: the invocations of a round are taken last to first.
NextCallReversed(toolCalls, n) == toolCalls[Len(toolCalls) - n + 1]

\* Which of a round's invocations the range loop takes at its n-th iteration.
NextCall(toolCalls, n) == toolCalls[n]

BoundError ==
    Errorf(<<"exceeded maximum tool calls (20)">>)

(***************************************************************************)
(* The environment's choices in the current round.                         *)
(***************************************************************************)
ModelResponses ==
    IF calls <= MaxFree THEN Responses ELSE {resp, PlainAnswer}

TextModelResponses ==
    IF calls = 1 THEN TextResponses ELSE {resp, PlainAnswer}

Outcomes == IF calls <= MaxFree THEN ToolOutcomes ELSE {Succeeded}

(***************************************************************************)
(* Agent.Chat, one action per stretch of code between blocking calls.      *)
(***************************************************************************)
\* What the steps of one Chat invocation leave alone: the registry (and its
\* history), the caller's context and the other invocation.
env == <<registry, ctxDone, parked, regLog, run, cfg, outside>>

\* The locals of Chat that hold the current response.
response == <<resp, parsed>>

ChatStart(u) ==
    /\ pc = "idle"
    /\ userMessage' = u
    /\ messages' = << Message("system", systemPrompt, <<>>, ""),
                      Message("user", u, <<>>, "") >>
    /\ i' = 0
    /\ pc' = "loop"
    /\ UNCHANGED <<env, response, k, ret, calls, received, transportFailed, sent,
                   execLog>>

\* Faulty variant: a request is posted while another one is in flight.
SendRequestPipelined ==
    /\ pc \in {"loop", "sending"}
    /\ LoopCond(i)
    /\ calls' = calls + 1
    /\ sent' = [Messages |-> messages, Tools |-> ToOllamaFormat(registry)]
    /\ pc' = "sending"
    /\ UNCHANGED <<env, userMessage, messages, i, response, k, ret, received,
                   transportFailed, execLog>>

\* Faulty variant: only the latest message is posted.
SendRequestLatestOnly ==
    /\ pc = "loop"
    /\ LoopCond(i)
    /\ calls' = calls + 1
    /\ sent' = [Messages |-> SubSeq(messages, Len(messages), Len(messages)),
                Tools |-> ToOllamaFormat(registry)]
    /\ pc' = "sending"
    /\ UNCHANGED <<env, userMessage, messages, i, response, k, ret, received,
                   transportFailed, execLog>>

\* The loop condition holds: sendRequest posts the conversation and the
\* registry's schema bundle.
SendRequest ==
    /\ pc = "loop"
    /\ LoopCond(i)
    /\ calls' = calls + 1
    /\ sent' = [Messages |-> messages, Tools |-> ToOllamaFormat(registry)]
    /\ pc' = "sending"
    /\ UNCHANGED <<env, userMessage, messages, i, response, k, ret, received,
                   transportFailed, execLog>>

\* Faulty variant: the bound error comes with the text of the last response.
BoundExceededWithText ==
    /\ pc = "loop"
    /\ ~LoopCond(i)
    /\ ret' = Return(cleanResponse(resp.Content), BoundError)
    /\ pc' = "done"
    /\ UNCHANGED <<env, userMessage, messages, i, response, k, calls, received,
                   transportFailed, sent, execLog>>

\* The loop ran out: Chat returns the bound error.
BoundExceeded ==
    /\ pc = "loop"
    /\ ~LoopCond(i)
    /\ ret' = Return(<<>>, BoundError)
    /\ pc' = "done"
    /\ UNCHANGED <<env, userMessage, messages, i, response, k, calls, received,
                   transportFailed, sent, execLog>>

\* Faulty variant: the loop goes on after a failed sendRequest.
TransportFailsRetried(e) ==
    /\ pc = "sending"
    /\ transportFailed' = TRUE
    /\ i' = i + 1
    /\ pc' = "loop"
    /\ UNCHANGED <<env, userMessage, messages, response, k, ret, calls, received,
                   sent, execLog>>

\* sendRequest returns an error: Chat returns it.
TransportFails(e) ==
    /\ pc = "sending"
    /\ transportFailed' = TRUE
    /\ ret' = Return(<<>>, e)
    /\ pc' = "done"
    /\ UNCHANGED <<env, userMessage, messages, i, response, k, calls, received,
                   sent, execLog>>

\* Faulty variant: the content is scanned for a textual call in any case.
FallbackPathAlways(r) == TRUE

\* The response carries no structured invocation: Chat takes the textual
\* fallback path.
FallbackPath(r) == Len(r.ToolCalls) = 0

\* Faulty variant: the HTTP call succeeds although its context is cancelled.
DoSucceedsDespiteCancel(done) == TRUE

\* client.Do and the reading of the body succeed only while the context of
\* the request is not cancelled.
DoSucceeds(done) == ~done

\* sendRequest returns the backend's message r.
ReceiveResponse(r) ==
    /\ pc = "sending"
    /\ DoSucceeds(ctxDone)
    /\ resp' = r
    /\ received' = received + 1
    /\ IF FallbackPath(r)
       THEN /\ parsed' = parseXMLToolCall(r.Content)
            /\ IF parsed'.ok /\ Get(registry, parsed'.toolName).ok
               THEN /\ pc' = "parsedExec"
                    /\ UNCHANGED <<messages, k, ret>>
               ELSE /\ ret' = Return(cleanResponse(r.Content), Nil)
                    /\ pc' = "done"
                    /\ UNCHANGED <<messages, k>>
       ELSE /\ parsed' = NotParsed
            /\ messages' = Append(messages, r)
            /\ k' = 1
            /\ pc' = "dispatch"
            /\ UNCHANGED ret
    /\ UNCHANGED <<env, userMessage, i, calls, transportFailed, sent, execLog>>

\* After the tool message of invocation k: the next invocation, or the next
\* round.
Advance ==
    IF k < Len(resp.ToolCalls)
    THEN /\ k' = k + 1
         /\ pc' = "dispatch"
         /\ i' = i
    ELSE /\ k' = 0
         /\ pc' = "loop"
         /\ i' = i + 1

\* Faulty variant: an invocation that cannot be executed ends the round.
DispatchToolAbortsRound ==
    /\ pc = "dispatch"
    /\ LET tc == NextCall(resp.ToolCalls, k)
           ex == executeTool(registry, tc)
       IN  IF ex.run
           THEN /\ pc' = "executing"
                /\ UNCHANGED <<messages, i, k>>
           ELSE /\ messages' = Append(messages, ToolMessage(tc, <<>>, ex.err))
                /\ k' = 0
                /\ pc' = "loop"
                /\ i' = i + 1
    /\ UNCHANGED <<env, userMessage, response, ret, calls, received,
                   transportFailed, sent, execLog>>

\* executeTool for invocation k: either it returns an error at once (unknown
\* tool, undecodable arguments) or it calls tool.Execute.
DispatchTool ==
    /\ pc = "dispatch"
    /\ LET tc == NextCall(resp.ToolCalls, k)
           ex == executeTool(registry, tc)
       IN  IF ex.run
           THEN /\ pc' = "executing"
                /\ UNCHANGED <<messages, i, k>>
           ELSE /\ messages' = Append(messages, ToolMessage(tc, <<>>, ex.err))
                /\ Advance
    /\ UNCHANGED <<env, userMessage, response, ret, calls, received,
                   transportFailed, sent, execLog>>

\* Faulty variant: an error of Execute is returned by Chat.
ExecuteReturnsFatal(o) ==
    /\ pc = "executing"
    /\ IF o.err.isNil
       THEN /\ messages' = Append(messages,
                  ToolMessage(NextCall(resp.ToolCalls, k), o.result, o.err))
            /\ Advance
            /\ UNCHANGED ret
       ELSE /\ ret' = Return(<<>>, o.err)
            /\ pc' = "done"
            /\ UNCHANGED <<messages, i, k>>
    /\ UNCHANGED <<env, userMessage, response, calls, received, transportFailed,
                   sent, execLog>>

\* tool.Execute returns outcome o for invocation k.
ExecuteReturns(o) ==
    /\ pc = "executing"
    /\ LET tc == NextCall(resp.ToolCalls, k)
           ex == executeTool(registry, tc)
       IN  /\ messages' = Append(messages, ToolMessage(tc, o.result, o.err))
           /\ execLog' = Append(execLog,
                  [path |-> "structured", name |-> tc.Name, args |-> ex.args,
                   outcome |-> o, at |-> Len(messages) + 1, round |-> calls])
    /\ Advance
    /\ UNCHANGED <<env, userMessage, response, ret, calls, received,
                   transportFailed, sent>>

\* Faulty variant: a round of the textual path does not count.
ParsedExecuteReturnsUncounted(o) ==
    /\ pc = "parsedExec"
    /\ messages' = messages \o ParsedMessages(resp.Content, o.result, o.err)
    /\ execLog' = Append(execLog,
           [path |-> "parsed", name |-> parsed.toolName, args |-> parsed.args,
            outcome |-> o, at |-> Len(messages'), round |-> calls])
    /\ pc' = "loop"
    /\ UNCHANGED <<env, userMessage, response, i, k, ret, calls, received,
                   transportFailed, sent>>

\* tool.Execute returns outcome o for the call parsed from the content.
ParsedExecuteReturns(o) ==
    /\ pc = "parsedExec"
    /\ messages' = messages \o ParsedMessages(resp.Content, o.result, o.err)
    /\ execLog' = Append(execLog,
           [path |-> "parsed", name |-> parsed.toolName, args |-> parsed.args,
            outcome |-> o, at |-> Len(messages'), round |-> calls])
    /\ i' = i + 1
    /\ pc' = "loop"
    /\ UNCHANGED <<env, userMessage, response, k, ret, calls, received,
                   transportFailed, sent>>

Next ==
    \/ \E u \in Utterances : ChatStart(u)
    \/ SendRequest
    \/ BoundExceeded
    \/ \E e \in TransportErrors : TransportFails(e)
    \/ \E r \in ModelResponses : ReceiveResponse(r)
    \/ DispatchTool
    \/ \E o \in Outcomes : ExecuteReturns(o)
    \/ \E o \in Outcomes : ParsedExecuteReturns(o)

Spec == Init /\ [][Next]_vars

\* The backend's first response is any text-only content of at most MaxChunks
\* chunks; from the second response on it repeats itself or ends.
NextText ==
    \/ \E u \in Utterances : ChatStart(u)
    \/ SendRequest
    \/ BoundExceeded
    \/ \E e \in TransportErrors : TransportFails(e)
    \/ \E r \in TextModelResponses : ReceiveResponse(r)
    \/ \E o \in Outcomes : ParsedExecuteReturns(o)

SpecText == Init /\ [][NextText]_vars

\* Chat is sequential code and each of its blocking calls returns (the HTTP
\* client and the tools have timeouts), so it always takes its next step.
FairSpec == Spec /\ WF_vars(Next)

(***************************************************************************)
(* Cancellation: main cancels the context that every Chat invocation and   *)
(* every tool receives.                                                    *)
(***************************************************************************)
\* The caller cancels the context while Chat is in progress.
Cancel ==
    /\ pc \notin {"idle", "done"}
    /\ ~ctxDone
    /\ ctxDone' = TRUE
    /\ UNCHANGED <<registry, parked, regLog, run, cfg, outside, pc, userMessage,
                   messages, i,
                   response, k, ret, calls, received, transportFailed, sent,
                   execLog>>

\* The backend answers freely before round MaxFree, then repeats itself or
\* ends.
CancelModelResponses ==
    IF calls < MaxFree THEN {PlainAnswer, ThreeCalls, TextCall}
    ELSE {resp, PlainAnswer}

\* A tool whose context is cancelled returns a result or an error.
CancelOutcomes == IF ctxDone THEN ToolOutcomes ELSE Outcomes

\* The steps of Chat.
ChatStep ==
    \/ \E u \in Utterances : ChatStart(u)
    \/ SendRequest
    \/ BoundExceeded
    \/ \E e \in TransportErrors : TransportFails(e)
    \/ \E r \in CancelModelResponses : ReceiveResponse(r)
    \/ DispatchTool
    \/ \E o \in CancelOutcomes : ExecuteReturns(o)
    \/ \E o \in CancelOutcomes : ParsedExecuteReturns(o)

NextCancel ==
    \/ Cancel
    \/ ChatStep

\* Chat always takes its next step; whether the caller cancels is up to the
\* caller.
FairSpecCancel == Init /\ [][NextCancel]_vars /\ WF_vars(ChatStep)

(***************************************************************************)
(* Two Chat invocations: main starts one goroutine per incoming message,   *)
(* each calling Chat on the same Agent.  The variables pc ... execLog are  *)
(* those of the goroutine that takes steps, parked holds those of the      *)
(* other one, and the scheduler may switch between them at any point.      *)
(***************************************************************************)
ConcurrentUtterances == { <<"what time is it">>, <<"list my files">> }

\* The backend answers freely before round MaxFree, then ends.
ConcurrentModelResponses ==
    IF calls < MaxFree THEN {PlainAnswer, TimeCall, TextCall}
    ELSE {PlainAnswer}

\* The locals and the history of the invocation that takes steps.
Locals ==
    [pc |-> pc, userMessage |-> userMessage, messages |-> messages, i |-> i,
     resp |-> resp, parsed |-> parsed, k |-> k, ret |-> ret,
     calls |-> calls, received |-> received,
     transportFailed |-> transportFailed, sent |-> sent, execLog |-> execLog]

\* Faulty variant: the conversation is shared by the two goroutines.
SwitchSharesMessages ==
    /\ parked # Locals
    /\ parked' = Locals
    /\ pc' = parked.pc
    /\ userMessage' = parked.userMessage
    /\ messages' = messages
    /\ i' = parked.i
    /\ resp' = parked.resp
    /\ parsed' = parked.parsed
    /\ k' = parked.k
    /\ ret' = parked.ret
    /\ calls' = parked.calls
    /\ received' = parked.received
    /\ transportFailed' = parked.transportFailed
    /\ sent' = parked.sent
    /\ execLog' = parked.execLog
    /\ UNCHANGED <<registry, ctxDone, regLog, run, cfg, outside>>

\* The scheduler runs the other goroutine: each goroutine has its own
\* locals (userMessage, messages, i, resp, ...), the Agent is shared.
Switch ==
    /\ parked # Locals
    /\ parked' = Locals
    /\ pc' = parked.pc
    /\ userMessage' = parked.userMessage
    /\ messages' = parked.messages
    /\ i' = parked.i
    /\ resp' = parked.resp
    /\ parsed' = parked.parsed
    /\ k' = parked.k
    /\ ret' = parked.ret
    /\ calls' = parked.calls
    /\ received' = parked.received
    /\ transportFailed' = parked.transportFailed
    /\ sent' = parked.sent
    /\ execLog' = parked.execLog
    /\ UNCHANGED <<registry, ctxDone, regLog, run, cfg, outside>>

NextConcurrent ==
    \/ \E u \in ConcurrentUtterances : ChatStart(u)
    \/ SendRequest
    \/ \E e \in TransportErrors : TransportFails(e)
    \/ \E r \in ConcurrentModelResponses : ReceiveResponse(r)
    \/ DispatchTool
    \/ \E o \in Outcomes : ExecuteReturns(o)
    \/ \E o \in Outcomes : ParsedExecuteReturns(o)
    \/ Switch

SpecConcurrent == Init /\ [][NextConcurrent]_vars

(***************************************************************************)
(* The registry on its own: Register calls after those of main, with tools *)
(* under names that are taken and under a new name.                        *)
(***************************************************************************)
NewName == <<"weather">>

RegisteredTools ==
    { ToolOf(n, d, Schema({d})) : n \in {TimeName, BashName, NewName},
                     d \in {<<"first">>, <<"second">>} }

\* Registry.Register(tool)
RegisterTool(tool) ==
    /\ Len(regLog) < Len(StartupTools) + MaxRegistrations
    /\ registry' = Register(registry, tool)
    /\ regLog' = Append(regLog, tool)
    /\ UNCHANGED <<ctxDone, parked, run, cfg, outside, pc, userMessage, messages, i,
                   response, k, ret, calls, received, transportFailed, sent,
                   execLog>>

NextRegistry == \E tool \in RegisteredTools : RegisterTool(tool)

SpecRegistry == Init /\ [][NextRegistry]_vars

\* A user of the registry that registers tools between the requests of a
\* Chat invocation; the backend asks for the time before round MaxFree.
RegistryUseResponses ==
    IF calls < MaxFree THEN {PlainAnswer, TimeCall} ELSE {PlainAnswer}

NextRegistryUse ==
    \/ \E tool \in RegisteredTools : RegisterTool(tool)
    \/ \E u \in Utterances : ChatStart(u)
    \/ SendRequest
    \/ \E r \in RegistryUseResponses : ReceiveResponse(r)
    \/ DispatchTool
    \/ ExecuteReturns(Succeeded)

SpecRegistryUse == Init /\ [][NextRegistryUse]_vars

(***************************************************************************)
(* A backend that is free in the role it gives its messages: sendRequest   *)
(* decodes the role of the response from the body as it is.                *)
(***************************************************************************)
\* The roles a response body may carry: the one Ollama documents, none, and
\* another string.
BackendRoles == {"assistant", "", "model"}

AnyRoleResponses ==
    {Message(role, m.Content, m.ToolCalls, "") :
        role \in BackendRoles, m \in {PlainAnswer, TimeCall, TextCall}}

AnyRoleModelResponses ==
    IF calls <= MaxFree THEN AnyRoleResponses ELSE {resp, PlainAnswer}

NextAnyRole ==
    \/ \E u \in Utterances : ChatStart(u)
    \/ SendRequest
    \/ BoundExceeded
    \/ \E e \in TransportErrors : TransportFails(e)
    \/ \E r \in AnyRoleModelResponses : ReceiveResponse(r)
    \/ DispatchTool
    \/ \E o \in Outcomes : ExecuteReturns(o)
    \/ \E o \in Outcomes : ParsedExecuteReturns(o)

SpecAnyRole == Init /\ [][NextAnyRole]_vars

(***************************************************************************)
(* main from the creation of the registry on: it registers its tools one   *)
(* after the other, constructs the agent and enters the update loop, which *)
(* starts a goroutine with a Chat invocation for each message.  The length *)
(* of regLog is main's position in its registrations.                      *)
(***************************************************************************)
InitMain ==
    /\ registry = NewRegistry
    /\ regLog = <<>>
    /\ parked = FreshLocals
    /\ ctxDone = FALSE
    /\ run = NoRun
    /\ cfg = Load(NoEnviron)
    /\ call = NoCall
    /\ files = NoFiles
    /\ calendarTool = NewCalendarTool(<<>>, <<>>, NoToken)
    /\ goroutines = NoGoroutines
    /\ mainLoop = EnterLoop
    /\ handlers = <<>>
    /\ pc = "idle"
    /\ userMessage = <<>>
    /\ messages = <<>>
    /\ i = 0
    /\ resp = NoMessage
    /\ parsed = NotParsed
    /\ k = 0
    /\ ret = NoReturn
    /\ calls = 0
    /\ received = 0
    /\ transportFailed = FALSE
    /\ sent = [Messages |-> <<>>, Tools |-> {}]
    /\ execLog = <<>>

\* Faulty variant: the update loop runs once the first tool is registered.
MainInLoopEarly == Len(regLog) >= 1

\* main has reached its update loop: the statements before it, the
\* registrations among them, are done.
MainInLoop == Len(regLog) = Len(StartupTools)

\* The next registry.Register(...) statement of main.
MainRegister ==
    /\ Len(regLog) < Len(StartupTools)
    /\ registry' = Register(registry, StartupTools[Len(regLog) + 1])
    /\ regLog' = Append(regLog, StartupTools[Len(regLog) + 1])
    /\ UNCHANGED <<ctxDone, parked, run, cfg, outside, pc, userMessage, messages, i,
                   response, k, ret, calls, received, transportFailed, sent,
                   execLog>>

\* The goroutines started by the update loop.
MainHandlers ==
    /\ MainInLoop
    /\ NextConcurrent

NextMain ==
    \/ MainRegister
    \/ MainHandlers

SpecMain == InitMain /\ [][NextMain]_vars

(***************************************************************************)
(* The tools that run a subprocess: what Execute returns for what the      *)
(* subprocess wrote and how it ended.  A stream (stdout, stderr) is its    *)
(* length in bytes with the white space at its beginning and at its end    *)
(* (lead = len: nothing but white space); a text is its length, the        *)
(* number of streams it shows cut, the number of truncation notes and      *)
(* whether it reports a timeout.                                           *)
(***************************************************************************)
Sizes ==
    {0, 1} \cup {maxOutputBytes + d : d \in 0..MaxExcess}
           \cup {maxOCIOutput + d : d \in 0..MaxExcess}
           \cup {3 * maxOCIOutput}

Streams ==
    {s \in [len : Sizes, lead : {0, 1}, trail : {0, 1}] :
        /\ s.len = 0 => (s.lead = 0 /\ s.trail = 0)
        /\ s.len = 1 => s.lead = s.trail}

AllSpace(s) == s.len > 0 /\ s.lead = s.len

\* How cmd.Run ended: exit status 0, another exit status, or killed when the
\* tool's own timeout fired (ctx.Err() is then DeadlineExceeded).
ExitStatuses == {"ok", "failed", "timeout"}

\* err.Error() of cmd.Run, and its length.
RunError(exit) ==
    IF exit = "timeout" THEN <<"signal: killed">> ELSE <<"exit status 1">>

RunErrorLen(exit) == IF exit = "timeout" THEN 14 ELSE 13

Text(len, cut, notes, timeoutNote) ==
    [len |-> len, cut |-> cut, notes |-> notes, timeoutNote |-> timeoutNote]

\* s[:limit] + note when s is longer than limit, else s.
Truncate(s, limit, noteLen) ==
    IF s.len > limit
    THEN [len |-> limit + noteLen, lead |-> s.lead, trail |-> 0, cut |-> 1,
          notes |-> 1]
    ELSE [len |-> s.len, lead |-> s.lead, trail |-> s.trail, cut |-> 0,
          notes |-> 0]

\* The result built by BashTool.Execute and PythonTool.executeCommand: stdout,
\* then "STDERR:" and stderr on a new line, each cut at maxOutputBytes with
\* the note "\n... (output truncated)".
BuildResult(stdout, stderr) ==
    LET o      == Truncate(stdout, maxOutputBytes, 23)
        e      == Truncate(stderr, maxOutputBytes, 23)
        outLen == IF stdout.len > 0 THEN o.len ELSE 0
        sep    == IF stderr.len > 0 /\ outLen > 0 THEN 1 ELSE 0
        errLen == IF stderr.len > 0 THEN sep + 8 + e.len ELSE 0
    IN  [len |-> outLen + errLen, cut |-> o.cut + e.cut,
         notes |-> o.notes + e.notes,
         lead |-> IF stdout.len = 0 THEN 0
                  ELSE IF AllSpace(stdout) THEN stdout.len + sep
                  ELSE stdout.lead,
         trail |-> IF stderr.len > 0
                   THEN (IF AllSpace(stderr) THEN stderr.len + 1 ELSE e.trail)
                   ELSE IF AllSpace(stdout) THEN stdout.len
                   ELSE o.trail,
         allSpace |-> stderr.len = 0 /\ AllSpace(stdout)]

\* strings.TrimSpace of a built result.
TrimResult(b) ==
    IF b.allSpace THEN 0 ELSE b.len - b.lead - b.trail

BashExecute(stdout, stderr, exit) ==
    LET b == BuildResult(stdout, stderr)
    IN  IF exit = "timeout"
        THEN [text |-> Text(b.len + 30, b.cut, b.notes, TRUE), err |-> Nil]
        ELSE IF exit = "failed" /\ b.len = 0
        THEN [text |-> Text(0, 0, 0, FALSE),
              err |-> Errorf(<<"command failed:", SP>> \o RunError(exit))]
        ELSE IF exit = "failed"
        THEN [text |-> Text(b.len + 13 + RunErrorLen(exit), b.cut, b.notes,
                            FALSE),
              err |-> Nil]
        ELSE IF b.len = 0
        THEN [text |-> Text(11, 0, 0, FALSE), err |-> Nil]
        ELSE [text |-> Text(TrimResult(b), b.cut, b.notes, FALSE),
              err |-> Nil]

PythonExecuteCommand(stdout, stderr, exit) ==
    LET b == BuildResult(stdout, stderr)
    IN  IF exit = "timeout"
        THEN [text |-> Text(b.len + 32, b.cut, b.notes, TRUE), err |-> Nil]
        ELSE IF exit = "failed" /\ b.len = 0
        THEN [text |-> Text(0, 0, 0, FALSE),
              err |-> Errorf(<<"execution failed:", SP>> \o RunError(exit))]
        ELSE IF b.len = 0
        THEN [text |-> Text(11, 0, 0, FALSE), err |-> Nil]
        ELSE [text |-> Text(b.len, b.cut, b.notes, FALSE), err |-> Nil]

\* OCITool.runCommand: stdout is cut at maxOCIOutput with the note
\* "\n... (truncated)"; stderr is returned as it is.
OCIRunCommand(stdout, stderr, exit) ==
    LET o == Truncate(stdout, maxOCIOutput, 16)
    IN  IF exit # "ok" /\ stderr.len > 0
        THEN [text |-> Text(7 + RunErrorLen(exit) + 1 + stderr.len, 0, 0,
                            FALSE),
              err |-> Errorf(RunError(exit))]
        ELSE IF exit # "ok"
        THEN [text |-> Text(7 + RunErrorLen(exit), 0, 0, FALSE),
              err |-> Errorf(RunError(exit))]
        ELSE IF stdout.len > 0
        THEN [text |-> Text(o.len, o.cut, o.notes, FALSE), err |-> Nil]
        ELSE IF stderr.len > 0
        THEN [text |-> Text(stderr.len, 0, 0, FALSE), err |-> Nil]
        ELSE [text |-> Text(30, 0, 0, FALSE), err |-> Nil]

PythonName == <<"python">>
OCIName == <<"oci">>

\* The timeout a tool puts on its subprocess.
ToolTimeout(tool) ==
    IF tool = BashName THEN bashTimeout
    ELSE IF tool = PythonName THEN pythonTimeout
    ELSE ociTimeout

\* A tool runs a subprocess and returns (one run is followed).
RunBash(stdout, stderr, exit) ==
    /\ run = NoRun
    /\ run' = [tool |-> BashName, stdout |-> stdout, stderr |-> stderr,
               exit |-> exit, result |-> BashExecute(stdout, stderr, exit)]
    /\ UNCHANGED <<registry, ctxDone, parked, regLog, cfg, outside, pc, userMessage,
                   messages, i, response, k, ret, calls, received,
                   transportFailed, sent, execLog>>

RunPython(stdout, stderr, exit) ==
    /\ run = NoRun
    /\ run' = [tool |-> PythonName, stdout |-> stdout, stderr |-> stderr,
               exit |-> exit,
               result |-> PythonExecuteCommand(stdout, stderr, exit)]
    /\ UNCHANGED <<registry, ctxDone, parked, regLog, cfg, outside, pc, userMessage,
                   messages, i, response, k, ret, calls, received,
                   transportFailed, sent, execLog>>

RunOCI(stdout, stderr, exit) ==
    /\ run = NoRun
    /\ run' = [tool |-> OCIName, stdout |-> stdout, stderr |-> stderr,
               exit |-> exit, result |-> OCIRunCommand(stdout, stderr, exit)]
    /\ UNCHANGED <<registry, ctxDone, parked, regLog, cfg, outside, pc, userMessage,
                   messages, i, response, k, ret, calls, received,
                   transportFailed, sent, execLog>>

NextTools ==
    \E stdout \in Streams, stderr \in Streams, exit \in ExitStatuses :
        \/ RunBash(stdout, stderr, exit)
        \/ RunPython(stdout, stderr, exit)
        \/ RunOCI(stdout, stderr, exit)

SpecTools == Init /\ [][NextTools]_vars

(***************************************************************************)
(* The arguments of Execute: a map from keys to decoded JSON values.       *)
(***************************************************************************)
JString(s) == [type |-> "string", str |-> s]
JNumber == [type |-> "number", str |-> <<>>]

\* Faulty variant: a value that is not a string is converted to one.
StringArgCoerced(args, key) ==
    IF key \notin DOMAIN args THEN <<>>
    ELSE IF args[key].type = "string" THEN args[key].str
    ELSE <<"7">>

\* v, _ := args[key].(string): the empty string when the key is absent or its
\* value is not a string.
StringArg(args, key) ==
    IF key \in DOMAIN args /\ args[key].type = "string"
    THEN args[key].str
    ELSE <<>>

\* The maps over a set of keys that give each key one of the values or leave
\* it out.
ArgsOver(keys, values) ==
    UNION {[present -> values] : present \in SUBSET keys}

\* What a key of a call may hold: nothing, the empty string, a number, a
\* string.
ArgValues == {JString(<<>>), JNumber, JString(<<"x">>)}

\* What Execute did: the operations on the world outside the process.
Op(kind, target) == [kind |-> kind, target |-> target]

Did(ops, result) == [ops |-> ops, result |-> result]

Refused(msg) == Did(<<>>, [text |-> <<>>, err |-> Errorf(<<msg>>)])

\* A subprocess that wrote one byte and nothing on stderr.
OneByte == [len |-> 1, lead |-> 0, trail |-> 0]
NoBytes == [len |-> 0, lead |-> 0, trail |-> 0]

(***************************************************************************)
(* Paths: a path is the sequence of its elements and separators ("/").     *)
(***************************************************************************)
Segments(path) == SelectSeq(path, LAMBDA t : t # "/")

Rooted(path) == path # <<>> /\ Head(path) = "/"

\* The elements of the cleaned path: "." is dropped, ".." takes the element
\* before it away, or is dropped at the root, or stays.
RECURSIVE CleanSegments(_, _, _)
CleanSegments(rooted, done, todo) ==
    IF todo = <<>> THEN done
    ELSE IF Head(todo) = "." THEN CleanSegments(rooted, done, Tail(todo))
    ELSE IF Head(todo) # ".."
    THEN CleanSegments(rooted, Append(done, Head(todo)), Tail(todo))
    ELSE IF done # <<>> /\ done[Len(done)] # ".."
    THEN CleanSegments(rooted, SubSeq(done, 1, Len(done) - 1), Tail(todo))
    ELSE IF rooted THEN CleanSegments(rooted, done, Tail(todo))
    ELSE CleanSegments(rooted, Append(done, ".."), Tail(todo))

RECURSIVE JoinSegments(_)
JoinSegments(segs) ==
    IF Len(segs) <= 1 THEN segs
    ELSE <<Head(segs), "/">> \o JoinSegments(Tail(segs))

\* filepath.Clean
Clean(path) ==
    LET segs == CleanSegments(Rooted(path), <<>>, Segments(path))
    IN  IF Rooted(path) THEN <<"/">> \o JoinSegments(segs)
        ELSE IF segs = <<>> THEN <<".">>
        ELSE JoinSegments(segs)

\* filepath.Join of two paths
Join(dir, path) ==
    IF dir = <<>> /\ path = <<>> THEN <<>>
    ELSE IF dir = <<>> THEN Clean(path)
    ELSE IF path = <<>> THEN Clean(dir)
    ELSE Clean(dir \o <<"/">> \o path)

\* filepath.Dir of a cleaned path
Dir(path) ==
    LET segs == Segments(path)
    IN  IF Len(segs) <= 1
        THEN (IF Rooted(path) THEN <<"/">> ELSE <<".">>)
        ELSE Clean(SubSeq(path, 1, Len(path) - 2))

\* strings.TrimPrefix
TrimPrefix(s, prefix) ==
    IF HasPrefix(s, prefix) THEN SubSeq(s, Len(prefix) + 1, Len(s)) ELSE s

\* for strings.HasPrefix(cleaned, "../") { cleaned = TrimPrefix(cleaned, "../") }
RECURSIVE TrimParents(_)
TrimParents(cleaned) ==
    IF HasPrefix(cleaned, <<"..", "/">>)
    THEN TrimParents(TrimPrefix(cleaned, <<"..", "/">>))
    ELSE cleaned

\* The workspace directory of the Python tool (the default of
\* PYTHON_WORKSPACE).
workspaceDir == <<"workspace">>

\* PythonTool.safePath
safePath(filename) ==
    Join(workspaceDir, TrimParents(TrimPrefix(Clean(filename), <<"/">>)))

\* The path is the directory or lies below it.
Inside(dir, path) ==
    \/ path = Clean(dir)
    \/ HasPrefix(path, Clean(dir) \o <<"/">>)

(***************************************************************************)
(* BashTool.Execute, ScrapeTool.Execute and OCITool.Execute from their     *)
(* arguments on.                                                           *)
(***************************************************************************)
BashToolExecute(args, exit) ==
    LET command == StringArg(args, "command")
    IN  IF command = <<>>
        THEN Refused("command is required")
        ELSE Did(<<Op("filesystem", "MkdirAll workspace"),
                   Op("subprocess", "bash -c")>>,
                 BashExecute(OneByte, NoBytes, exit))

ScrapeName == <<"scrape">>

\* How the fetch and the summarizer ended.
ScrapeOutcomes == {"fetch failed", "no text", "summary failed", "summarized"}

ScrapeToolExecute(args, outcome) ==
    LET url == StringArg(args, "url")
    IN  IF url = <<>>
        THEN Refused("url is required")
        ELSE IF outcome = "fetch failed"
        THEN Did(<<Op("network", "GET url")>>,
                 [text |-> <<>>, err |-> Errorf(<<"fetching URL">>)])
        ELSE IF outcome = "no text"
        THEN Did(<<Op("network", "GET url")>>,
                 [text |-> <<"Could not extract text content from the page.">>,
                  err |-> Nil])
        ELSE IF outcome = "summary failed"
        THEN Did(<<Op("network", "GET url"), Op("network", "POST ollama")>>,
                 [text |-> <<"Failed to summarize, here's the extracted text:">>,
                  err |-> Nil])
        ELSE Did(<<Op("network", "GET url"), Op("network", "POST ollama")>>,
                 [text |-> <<"summary">>, err |-> Nil])

\* The operations of the oci tool and the keys each of them requires.
OCIOperations ==
    {<<"inspect">>, <<"manifest">>, <<"list-tags">>, <<"pull">>, <<"copy">>,
     <<"annotate">>, <<"delete">>, <<"push">>}

OCIRequired(operation) ==
    IF operation = <<"copy">> THEN {"source", "dest"}
    ELSE IF operation = <<"annotate">> THEN {"image", "annotations"}
    ELSE IF operation = <<"push">> THEN {"file", "dest"}
    ELSE {"image"}

OCIToolExecute(args, exit) ==
    LET operation == StringArg(args, "operation")
    IN  IF operation = <<>>
        THEN Refused("operation is required")
        ELSE IF operation \notin OCIOperations
        THEN Refused("unknown operation")
        ELSE IF \E key \in OCIRequired(operation) : StringArg(args, key) = <<>>
        THEN Refused("a key is required for the operation")
        ELSE IF operation = <<"manifest">> /\ exit = "ok"
        THEN Did(<<Op("subprocess", "skopeo"), Op("subprocess", "jq")>>,
                 OCIRunCommand(OneByte, NoBytes, exit))
        ELSE Did(<<Op("subprocess", "skopeo, podman or oras")>>,
                 OCIRunCommand(OneByte, NoBytes, exit))

(***************************************************************************)
(* PythonTool.  files maps the path of each file of the workspace to its   *)
(* content.                                                                *)
(***************************************************************************)
\* The directories: the working directory of the process, the workspace in
\* it, and the directories that hold files.
IsDir(fs, path) ==
    \/ path = <<".">>
    \/ path = workspaceDir
    \/ \E f \in DOMAIN fs : HasPrefix(f, path \o <<"/">>)

\* os.Stat finds the path.
Exists(fs, path) == path \in DOMAIN fs \/ IsDir(fs, path)

\* A file stands where a directory of the path would be.
FileAbove(fs, path) == \E f \in DOMAIN fs : HasPrefix(path, f \o <<"/">>)

\* The file a subprocess started in the workspace opens for the argument.
Opened(filename) ==
    IF Rooted(filename) THEN Clean(filename) ELSE Join(workspaceDir, filename)

\* No test was run.
NoPytest == [exit |-> "none"]

Outcome(ops, result, fs, tested) ==
    [ops |-> ops, result |-> result, files |-> fs, tested |-> tested]

Fails(ops, msg, fs) ==
    Outcome(ops, [text |-> <<>>, err |-> Errorf(<<msg>>)], fs, NoPytest)

Returns(ops, text, fs) ==
    Outcome(ops, [text |-> text, err |-> Nil], fs, NoPytest)

runCode(args, fs, exit) ==
    LET code     == StringArg(args, "code")
        filename == StringArg(args, "filename")
        fullPath == safePath(filename)
        tmpFile  == Join(workspaceDir, <<"run_*.py">>)
    IN  IF filename # <<>>
        THEN IF ~Exists(fs, fullPath)
             THEN Fails(<<Op("filesystem", fullPath)>>, "file not found", fs)
             ELSE Outcome(<<Op("filesystem", fullPath),
                            Op("subprocess", Opened(filename))>>,
                          PythonExecuteCommand(OneByte, NoBytes, exit), fs,
                          NoPytest)
        ELSE IF code # <<>>
        THEN Outcome(<<Op("filesystem", tmpFile), Op("subprocess", tmpFile),
                       Op("filesystem", tmpFile)>>,
                     PythonExecuteCommand(OneByte, NoBytes, exit), fs,
                     NoPytest)
        ELSE Fails(<<>>, "either 'code' or 'filename' is required for run", fs)

runTests(args, fs, exit) ==
    LET filename == StringArg(args, "filename")
        fullPath == safePath(filename)
    IN  IF filename # <<>>
        THEN IF ~Exists(fs, fullPath)
             THEN Fails(<<Op("filesystem", fullPath)>>, "test file not found",
                        fs)
             ELSE Outcome(<<Op("filesystem", fullPath),
                            Op("subprocess", Opened(filename))>>,
                          PythonExecuteCommand(OneByte, NoBytes, exit), fs,
                          NoPytest)
        ELSE Outcome(<<Op("subprocess", workspaceDir)>>,
                     PythonExecuteCommand(OneByte, NoBytes, exit), fs,
                     NoPytest)

writeFile(args, fs) ==
    LET code     == StringArg(args, "code")
        filename == StringArg(args, "filename")
        filePath == safePath(filename)
        mkdir    == IF Dir(filePath) # workspaceDir
                    THEN <<Op("filesystem", Dir(filePath))>> ELSE <<>>
    IN  IF code = <<>>
        THEN Fails(<<>>, "code is required for write operation", fs)
        ELSE IF filename = <<>>
        THEN Fails(<<>>, "filename is required for write operation", fs)
        ELSE IF FileAbove(fs, filePath)
        THEN Fails(mkdir, "creating directory", fs)
        ELSE IF IsDir(fs, filePath)
        THEN Fails(mkdir \o <<Op("filesystem", filePath)>>, "writing file", fs)
        ELSE Returns(mkdir \o <<Op("filesystem", filePath)>>,
                     <<"Saved to">> \o filename, MapPut(fs, filePath, code))

\* The content of a file is short here: readFile's cut at maxOutputBytes does
\* not apply.
readFile(args, fs) ==
    LET filename == StringArg(args, "filename")
        filePath == safePath(filename)
    IN  IF filename = <<>>
        THEN Fails(<<>>, "filename is required for read operation", fs)
        ELSE IF filePath \in DOMAIN fs
        THEN Returns(<<Op("filesystem", filePath)>>, fs[filePath], fs)
        ELSE IF IsDir(fs, filePath)
        THEN Fails(<<Op("filesystem", filePath)>>, "reading file", fs)
        ELSE Fails(<<Op("filesystem", filePath)>>, "file not found", fs)

listFiles(fs) ==
    Returns(<<Op("filesystem", workspaceDir)>>,
            IF DOMAIN fs = {} THEN <<"Workspace is empty.">>
            ELSE <<"Files in workspace:">>, fs)

\* name + ".py" and "test_" + name + ".py", for the names of the model.
implFile(name) == IF name = <<"calc">> THEN <<"calc.py">> ELSE <<"util.py">>

testFile(name) ==
    IF name = <<"calc">> THEN <<"test_calc.py">> ELSE <<"test_util.py">>

\* What runTestsInternal returns for a run of pytest: the length of the
\* output, whether "FAILED" and "passed" occur in it, and the error of
\* cmd.Run.  The run gives the length of stdout and of stderr and where in
\* stdout the two words begin (0: nowhere).
runTestsInternal(pytest) ==
    LET full == pytest.stdout
                  + (IF pytest.stderr > 0 THEN 9 + pytest.stderr ELSE 0)
        kept == IF full > testOutputLimit THEN testOutputLimit ELSE full
    IN  [len       |-> IF full > testOutputLimit THEN kept + 16 ELSE full,
         hasFAILED |-> pytest.failedAt > 0 /\ pytest.failedAt + 5 <= kept,
         haspassed |-> pytest.passedAt > 0 /\ pytest.passedAt + 5 <= kept,
         err       |-> IF pytest.exit = "ok" THEN Nil
                       ELSE Errorf(RunError(pytest.exit))]

\* Faulty variant: the implementation is written when both are given.
developPrefersGiven(args, fs, pytest) ==
    LET name     == StringArg(args, "name")
        given    == StringArg(args, "implementation")
        tests    == StringArg(args, "tests")
        fix      == StringArg(args, "fix_implementation")
        implementation == IF given # <<>> THEN given ELSE fix
        implPath == Join(workspaceDir, implFile(name))
        testPath == Join(workspaceDir, testFile(name))
        fs1      == IF implementation # <<>>
                    THEN MapPut(fs, implPath, implementation) ELSE fs
        ops1     == IF implementation # <<>>
                    THEN <<Op("filesystem", implPath)>> ELSE <<>>
        fs2      == IF tests # <<>> THEN MapPut(fs1, testPath, tests) ELSE fs1
        ops2     == IF tests # <<>>
                    THEN Append(ops1, Op("filesystem", testPath)) ELSE ops1
        output   == runTestsInternal(pytest)
        passed   == output.err.isNil /\ ~output.hasFAILED
    IN  IF name = <<>>
        THEN Fails(<<>>, "name is required for develop operation", fs)
        ELSE IF implPath \notin DOMAIN fs2
        THEN Fails(Append(ops2, Op("filesystem", implPath)),
                   "implementation file not found", fs2)
        ELSE IF testPath \notin DOMAIN fs2
        THEN Fails(ops2 \o <<Op("filesystem", implPath),
                             Op("filesystem", testPath)>>,
                   "test file not found", fs2)
        ELSE Outcome(ops2 \o <<Op("filesystem", implPath),
                               Op("filesystem", testPath),
                               Op("subprocess", testPath)>>,
                     [text |-> IF passed /\ output.haspassed
                               THEN <<"ALL TESTS PASSED">>
                               ELSE <<"TESTS FAILED">>,
                      err |-> Nil],
                     fs2, pytest)

develop(args, fs, pytest) ==
    LET name     == StringArg(args, "name")
        given    == StringArg(args, "implementation")
        tests    == StringArg(args, "tests")
        fix      == StringArg(args, "fix_implementation")
        implementation == IF fix # <<>> THEN fix ELSE given
        implPath == Join(workspaceDir, implFile(name))
        testPath == Join(workspaceDir, testFile(name))
        fs1      == IF implementation # <<>>
                    THEN MapPut(fs, implPath, implementation) ELSE fs
        ops1     == IF implementation # <<>>
                    THEN <<Op("filesystem", implPath)>> ELSE <<>>
        fs2      == IF tests # <<>> THEN MapPut(fs1, testPath, tests) ELSE fs1
        ops2     == IF tests # <<>>
                    THEN Append(ops1, Op("filesystem", testPath)) ELSE ops1
        output   == runTestsInternal(pytest)
        passed   == output.err.isNil /\ ~output.hasFAILED
    IN  IF name = <<>>
        THEN Fails(<<>>, "name is required for develop operation", fs)
        ELSE IF implPath \notin DOMAIN fs2
        THEN Fails(Append(ops2, Op("filesystem", implPath)),
                   "implementation file not found", fs2)
        ELSE IF testPath \notin DOMAIN fs2
        THEN Fails(ops2 \o <<Op("filesystem", implPath),
                             Op("filesystem", testPath)>>,
                   "test file not found", fs2)
        ELSE Outcome(ops2 \o <<Op("filesystem", implPath),
                               Op("filesystem", testPath),
                               Op("subprocess", testPath)>>,
                     [text |-> IF passed /\ output.haspassed
                               THEN <<"ALL TESTS PASSED">>
                               ELSE <<"TESTS FAILED">>,
                      err |-> Nil],
                     fs2, pytest)

PythonToolExecute(args, fs, exit, pytest) ==
    LET operation == StringArg(args, "operation")
    IN  IF operation = <<>> THEN Fails(<<>>, "operation is required", fs)
        ELSE IF operation = <<"run">> THEN runCode(args, fs, exit)
        ELSE IF operation = <<"develop">> THEN develop(args, fs, pytest)
        ELSE IF operation = <<"test">> THEN runTests(args, fs, exit)
        ELSE IF operation = <<"write">> THEN writeFile(args, fs)
        ELSE IF operation = <<"read">> THEN readFile(args, fs)
        ELSE IF operation = <<"list">> THEN listFiles(fs)
        ELSE Fails(<<>>, "unknown operation", fs)

(***************************************************************************)
(* A caller of the tools: each step is one Execute.                        *)
(***************************************************************************)
Called(tool, args, ops, result, tested) ==
    [tool |-> tool, args |-> args, ops |-> ops, result |-> result,
     tested |-> tested]

agent == <<registry, ctxDone, parked, regLog, run, cfg, pc, userMessage,
           messages, i, response, k, ret, calls, received, transportFailed,
           sent, execLog>>

ExecuteBash(args, exit) ==
    /\ LET did == BashToolExecute(args, exit)
       IN  call' = Called(BashName, args, did.ops, did.result, NoPytest)
    /\ UNCHANGED <<agent, bot, files, calendar>>

ExecuteScrape(args, outcome) ==
    /\ LET did == ScrapeToolExecute(args, outcome)
       IN  call' = Called(ScrapeName, args, did.ops, did.result, NoPytest)
    /\ UNCHANGED <<agent, bot, files, calendar>>

ExecuteOCI(args, exit) ==
    /\ LET did == OCIToolExecute(args, exit)
       IN  call' = Called(OCIName, args, did.ops, did.result, NoPytest)
    /\ UNCHANGED <<agent, bot, files, calendar>>

ExecutePython(args, exit, pytest) ==
    /\ LET did == PythonToolExecute(args, files, exit, pytest)
       IN  /\ call' = Called(PythonName, args, did.ops, did.result, did.tested)
           /\ files' = did.files
    /\ UNCHANGED <<agent, bot, calendar>>

\* A run of pytest that passes, with a short output.
PassingPytest ==
    [exit |-> "ok", stdout |-> 200, stderr |-> 0, failedAt |-> 0,
     passedAt |-> 180]

Merge(f, g) ==
    [x \in DOMAIN f \cup DOMAIN g |-> IF x \in DOMAIN f THEN f[x] ELSE g[x]]

\* Calls that differ in the required key of each tool (absent, empty, a
\* number, a string, and for the tools with operations some of these), with
\* and without other keys.
BashArgs == ArgsOver({"command", "timeout"}, ArgValues)

ScrapeArgs == ArgsOver({"url"}, ArgValues)

OCIArgs ==
    {Merge(a, b) :
        a \in ArgsOver({"operation"},
                       ArgValues \cup {JString(<<"inspect">>),
                                       JString(<<"manifest">>),
                                       JString(<<"copy">>)}),
        b \in ArgsOver({"image", "source", "dest"}, {JString(<<"x">>)})}

PythonOperations ==
    {<<"run">>, <<"develop">>, <<"test">>, <<"write">>, <<"read">>, <<"list">>}

PythonArgs ==
    {Merge(a, b) :
        a \in ArgsOver({"operation"},
                       ArgValues \cup {JString(o) : o \in PythonOperations}),
        b \in {Merge(c, d) :
                  c \in ArgsOver({"code", "filename"}, {JString(<<"a">>)}),
                  d \in ArgsOver({"name"}, {JString(<<"calc">>)})}}

NextArgs ==
    \/ \E args \in BashArgs, exit \in ExitStatuses :
          call = NoCall /\ ExecuteBash(args, exit)
    \/ \E args \in ScrapeArgs, outcome \in ScrapeOutcomes :
          call = NoCall /\ ExecuteScrape(args, outcome)
    \/ \E args \in OCIArgs, exit \in ExitStatuses :
          call = NoCall /\ ExecuteOCI(args, exit)
    \/ \E args \in PythonArgs, exit \in ExitStatuses :
          /\ call.tool \in {<<>>, PythonName}
          /\ ExecutePython(args, exit, PassingPytest)

SpecArgs == Init /\ [][NextArgs]_vars

\* The filenames a caller may pass: the paths of up to MaxPathLen elements and
\* separators over a name, ".." and "/" (no two elements without a separator
\* between them).
RECURSIVE PathsOf(_)
PathsOf(n) ==
    IF n = 0 THEN { <<>> }
    ELSE LET shorter == PathsOf(n - 1)
         IN  shorter \cup
             {Append(p, t) : p \in shorter, t \in {"/", "..", "a"}}

Filenames ==
    {f \in PathsOf(MaxPathLen) :
        /\ f # <<>>
        /\ \A n \in 1..(Len(f) - 1) : f[n] = "/" \/ f[n + 1] = "/"}

PathArgs ==
    {[operation |-> JString(o), filename |-> JString(f),
      code |-> JString(<<"v1">>)] :
        o \in {<<"read">>, <<"write">>, <<"run">>, <<"test">>},
        f \in Filenames}

NextPaths ==
    \E args \in PathArgs, exit \in ExitStatuses :
        ExecutePython(args, exit, PassingPytest)

SpecPaths == Init /\ [][NextPaths]_vars

\* The runs of pytest: it exits with status 0 or not; its output is short,
\* around the limit of runTestsInternal or twice as long; the summary line
\* with "passed" (always there when pytest succeeds) ends the output; "FAILED"
\* may stand near the beginning.
PytestLengths ==
    {200, 2 * testOutputLimit}
        \cup {testOutputLimit + d : d \in 0..MaxExcess}

PytestRuns ==
    {r \in [exit : {"ok", "failed"}, stdout : PytestLengths, stderr : {0, 10},
            failedAt : {0, 100},
            passedAt : {0} \cup {l - 20 : l \in PytestLengths}] :
        /\ r.passedAt \in {0, r.stdout - 20}
        /\ r.exit = "ok" => r.passedAt > 0}

DevelopArgs ==
    {Merge([operation |-> JString(<<"develop">>)], Merge(a, Merge(b, c))) :
        a \in ArgsOver({"name"}, {JString(<<"calc">>)}),
        b \in ArgsOver({"implementation", "tests"}, {JString(<<"v1">>)}),
        c \in ArgsOver({"fix_implementation"}, {JString(<<"v2">>)})}

NextDevelop ==
    \E args \in DevelopArgs, pytest \in PytestRuns :
        ExecutePython(args, "ok", pytest)

SpecDevelop == Init /\ [][NextDevelop]_vars

(***************************************************************************)
(* main's first step: it loads the configuration from the environment the  *)
(* process was started in.                                                 *)
(***************************************************************************)
InitConfig ==
    /\ cfg = NotLoaded
    /\ call = NoCall
    /\ files = NoFiles
    /\ calendarTool = NewCalendarTool(<<>>, <<>>, NoToken)
    /\ goroutines = NoGoroutines
    /\ mainLoop = EnterLoop
    /\ handlers = <<>>
    /\ registry = NewRegistry
    /\ regLog = <<>>
    /\ parked = FreshLocals
    /\ ctxDone = FALSE
    /\ run = NoRun
    /\ pc = "idle"
    /\ userMessage = <<>>
    /\ messages = <<>>
    /\ i = 0
    /\ resp = NoMessage
    /\ parsed = NotParsed
    /\ k = 0
    /\ ret = NoReturn
    /\ calls = 0
    /\ received = 0
    /\ transportFailed = FALSE
    /\ sent = [Messages |-> <<>>, Tools |-> {}]
    /\ execLog = <<>>

LoadConfig(environ) ==
    /\ ~cfg.loaded
    /\ cfg' = Load(environ)
    /\ UNCHANGED <<registry, ctxDone, parked, regLog, run, outside, pc,
                   userMessage, messages, i, response, k, ret, calls, received,
                   transportFailed, sent, execLog>>

NextConfig == \E environ \in Environs : LoadConfig(environ)

SpecConfig == InitConfig /\ [][NextConfig]_vars

(***************************************************************************)
(* CalendarTool: Init (called by main and by /auth), CompleteAuth (called   *)
(* by /authcode) and Execute (called by Chat), each by its own goroutine.   *)
(* A step is one access to the tool's fields, one operation on its mutex,   *)
(* or one call that leaves the process.                                     *)
(***************************************************************************)
NotAuthenticated ==
    <<"Calendar not authenticated. Please use /auth to connect your Google Calendar.">>

AuthCodes == {<<"code">>}

\* sync.RWMutex: Lock waits for the writer and the readers to leave, RLock
\* for the writer.
\* Faulty variant: Lock does not wait for the readers.
CanLockIgnoresReaders(mu) == mu.writer = 0

CanLock(mu) == mu.writer = 0 /\ mu.readers = {}

CanRLock(mu) == mu.writer = 0

At(g, method, position) ==
    goroutines[g].method = method /\ goroutines[g].pc = position

Enter(g, method, position) ==
    [goroutines EXCEPT
        ![g] = [Outside EXCEPT !.method = method, !.pc = position]]

Leave(g, text, err) ==
    [goroutines EXCEPT ![g].pc = "returned", ![g].ret = Return(text, err)]

\* A goroutine calls one of the methods.
CallMethod(g, method) ==
    /\ goroutines[g].pc \in {"out", "returned"}
    /\ goroutines' =
          Enter(g, method,
                CASE method = "Init" -> "tokenFromFile"
                  [] method = "CompleteAuth" -> "Exchange"
                  [] method = "Execute" -> "RLock")
    /\ UNCHANGED <<agent, bot, call, files, calendarTool>>

\* Init up to tokenFromFile: without credentials it fails; without a token
\* that can be read it returns the URL to authenticate at.
InitTokenFromFile(g, readable) ==
    /\ At(g, "Init", "tokenFromFile")
    /\ goroutines' =
          IF \/ calendarTool.config.ClientID = <<>>
             \/ calendarTool.config.ClientSecret = <<>>
          THEN Leave(g, <<>>,
                     Errorf(<<"GOOGLE_CLIENT_ID and GOOGLE_CLIENT_SECRET are required">>))
          ELSE IF calendarTool.stored.isNil \/ ~readable
          THEN Leave(g, <<"auth URL">>, Nil)
          ELSE [goroutines EXCEPT ![g].pc = "NewService",
                                  ![g].token = calendarTool.stored]
    /\ UNCHANGED <<agent, bot, call, files, calendarTool>>

\* CompleteAuth: the exchange of the code for a token.
Exchange(g, code, ok) ==
    /\ At(g, "CompleteAuth", "Exchange")
    /\ goroutines' =
          IF ok
          THEN [goroutines EXCEPT ![g].pc = "saveToken",
                                  ![g].token = Token(code)]
          ELSE Leave(g, <<>>, Errorf(<<"exchanging auth code: ", "denied">>))
    /\ UNCHANGED <<agent, bot, call, files, calendarTool>>

\* CompleteAuth: the token is written to the token file.
SaveToken(g, ok) ==
    /\ At(g, "CompleteAuth", "saveToken")
    /\ IF ok
       THEN /\ calendarTool' =
                  [calendarTool EXCEPT !.stored = goroutines[g].token]
            /\ goroutines' = [goroutines EXCEPT ![g].pc = "NewService"]
       ELSE /\ goroutines' =
                  Leave(g, <<>>, Errorf(<<"saving token: ", "denied">>))
            /\ UNCHANGED calendarTool
    /\ UNCHANGED <<agent, bot, call, files>>

\* Init and CompleteAuth: the service is constructed over the token's client.
ConstructService(g, ok) ==
    /\ goroutines[g].method \in {"Init", "CompleteAuth"}
    /\ goroutines[g].pc = "NewService"
    /\ goroutines' =
          IF ok
          THEN [goroutines EXCEPT ![g].pc = "Lock",
                                  ![g].service = NewService(goroutines[g].token)]
          ELSE Leave(g, <<>>,
                     Errorf(<<"creating calendar service: ", "failed">>))
    /\ UNCHANGED <<agent, bot, call, files, calendarTool>>

\* c.mu.Lock()
Lock(g) ==
    /\ goroutines[g].pc = "Lock"
    /\ CanLock(calendarTool.mu)
    /\ calendarTool' = [calendarTool EXCEPT !.mu.writer = g]
    /\ goroutines' = [goroutines EXCEPT ![g].pc = "assign"]
    /\ UNCHANGED <<agent, bot, call, files>>

\* c.service = service
AssignService(g) ==
    /\ goroutines[g].pc = "assign"
    /\ calendarTool' = [calendarTool EXCEPT !.service = goroutines[g].service]
    /\ goroutines' = [goroutines EXCEPT ![g].pc = "Unlock", ![g].wrote = TRUE]
    /\ UNCHANGED <<agent, bot, call, files>>

\* c.mu.Unlock(), and the method returns.
Unlock(g) ==
    /\ goroutines[g].pc = "Unlock"
    /\ calendarTool' = [calendarTool EXCEPT !.mu.writer = 0]
    /\ goroutines' = Leave(g, <<>>, Nil)
    /\ UNCHANGED <<agent, bot, call, files>>

\* Execute: c.mu.RLock()
RLock(g) ==
    /\ At(g, "Execute", "RLock")
    /\ CanRLock(calendarTool.mu)
    /\ calendarTool' =
          [calendarTool EXCEPT !.mu.readers = calendarTool.mu.readers \cup {g}]
    /\ goroutines' = [goroutines EXCEPT ![g].pc = "read"]
    /\ UNCHANGED <<agent, bot, call, files>>

\* service := c.service
ReadService(g) ==
    /\ At(g, "Execute", "read")
    /\ goroutines' = [goroutines EXCEPT ![g].pc = "RUnlock",
                                        ![g].service = calendarTool.service]
    /\ UNCHANGED <<agent, bot, call, files, calendarTool>>

\* c.mu.RUnlock()
RUnlock(g) ==
    /\ At(g, "Execute", "RUnlock")
    /\ calendarTool' =
          [calendarTool EXCEPT !.mu.readers = calendarTool.mu.readers \ {g}]
    /\ goroutines' = [goroutines EXCEPT ![g].pc = "use"]
    /\ UNCHANGED <<agent, bot, call, files>>

\* Execute from the nil check on: without a service it returns the text to
\* authenticate; with one it lists the events, which may fail.
UseService(g, listed) ==
    /\ At(g, "Execute", "use")
    /\ goroutines' =
          IF goroutines[g].service.isNil
          THEN Leave(g, NotAuthenticated, Nil)
          ELSE IF listed
          THEN Leave(g, <<"No upcoming events found.">>, Nil)
          ELSE Leave(g, <<>>, Errorf(<<"retrieving events: ", "failed">>))
    /\ UNCHANGED <<agent, bot, call, files, calendarTool>>

\* main constructed the tool with the credentials of its configuration;
\* the token file holds a token of an earlier run, or does not exist.
InitCalendar ==
    /\ calendarTool \in
          {NewCalendarTool(id, <<"secret">>, stored) :
              id \in {<<>>, <<"id">>},
              stored \in {NoToken, Token(<<"file">>)}}
    /\ goroutines = NoGoroutines
    /\ mainLoop = EnterLoop
    /\ handlers = <<>>
    /\ parked = FreshLocals
    /\ regLog = StartupTools
    /\ registry = RegisterAll(NewRegistry, StartupTools)
    /\ ctxDone = FALSE
    /\ run = NoRun
    /\ cfg = Load(NoEnviron)
    /\ call = NoCall
    /\ files = NoFiles
    /\ pc = "idle"
    /\ userMessage = <<>>
    /\ messages = <<>>
    /\ i = 0
    /\ resp = NoMessage
    /\ parsed = NotParsed
    /\ k = 0
    /\ ret = NoReturn
    /\ calls = 0
    /\ received = 0
    /\ transportFailed = FALSE
    /\ sent = [Messages |-> <<>>, Tools |-> {}]
    /\ execLog = <<>>

CalendarMethods == {"Init", "CompleteAuth", "Execute"}

NextCalendar ==
    \E g \in Goroutines :
        \/ \E method \in CalendarMethods : CallMethod(g, method)
        \/ \E readable \in BOOLEAN : InitTokenFromFile(g, readable)
        \/ \E code \in AuthCodes, ok \in BOOLEAN : Exchange(g, code, ok)
        \/ \E ok \in BOOLEAN : SaveToken(g, ok)
        \/ \E ok \in BOOLEAN : ConstructService(g, ok)
        \/ Lock(g)
        \/ AssignService(g)
        \/ Unlock(g)
        \/ RLock(g)
        \/ ReadService(g)
        \/ RUnlock(g)
        \/ \E listed \in BOOLEAN : UseService(g, listed)

SpecCalendar == InitCalendar /\ [][NextCalendar]_vars

(***************************************************************************)
(* handleMessage: the reply sent to the user for what Chat returned.       *)
(***************************************************************************)
SorryReply ==
    <<"Sorry, I couldn't process that. Make sure Ollama is running.">>

Reply(returned) ==
    IF ~returned.err.isNil THEN SorryReply ELSE returned.text

(***************************************************************************)
(* main's update loop and shutdown: a goroutine waits for SIGINT or SIGTERM *)
(* and cancels the context; the loop selects between the context's Done and *)
(* the updates, and starts a goroutine running handleMessage for each       *)
(* update that has a message.  When main returns the process exits, with   *)
(* every goroutine that is still running.                                  *)
(***************************************************************************)
NoTgMessage == [isNil |-> TRUE, Command |-> "", Arguments |-> <<>>]

TgMessage(command, arguments) ==
    [isNil |-> FALSE, Command |-> command, Arguments |-> arguments]

Update(message) == [Message |-> message]

Updates ==
    {Update(NoTgMessage)} \cup
    {Update(TgMessage(command, <<>>)) :
        command \in {"start", "help", "auth", "authcode", "", "other"}} \cup
    {Update(TgMessage("authcode", <<"code">>))}

\* The context handleMessage was given is done once main's is cancelled.
Done(ctx) == ctx = "ctx" /\ ctxDone

\* go handleMessage(ctx, ..., update.Message): i counts the rounds of its
\* Chat, sends the calls of bot.Send.
Handler(ctx, message) ==
    [ctx |-> ctx, message |-> message, pc |-> "switch", i |-> 0,
     reply |-> <<>>, sends |-> 0]

Alive == mainLoop.pc # "exited"

\* The process receives SIGINT or SIGTERM: the channel holds one signal.
Signal ==
    /\ Alive
    /\ mainLoop.sigChan = 0
    /\ mainLoop' = [mainLoop EXCEPT !.sigChan = 1]
    /\ UNCHANGED <<agent, call, files, calendar, handlers>>

\* The waiting goroutine receives the signal and cancels the context.
Shutdown ==
    /\ Alive
    /\ mainLoop.watcher = "waiting"
    /\ mainLoop.sigChan = 1
    /\ mainLoop' = [mainLoop EXCEPT !.sigChan = 0, !.watcher = "returned"]
    /\ ctxDone' = TRUE
    /\ UNCHANGED <<registry, parked, regLog, run, cfg, pc, userMessage,
                   messages, i, response, k, ret, calls, received,
                   transportFailed, sent, execLog, call, files, calendar,
                   handlers>>

\* select takes an update: without a message the loop continues, with one
\* it starts a goroutine.
ReceiveUpdate(update) ==
    /\ mainLoop.pc = "select"
    /\ mainLoop.received < MaxUpdates
    /\ mainLoop' = [mainLoop EXCEPT !.received = mainLoop.received + 1]
    /\ handlers' =
          IF update.Message.isNil THEN handlers
          ELSE Append(handlers, Handler("ctx", update.Message))
    /\ UNCHANGED <<agent, call, files, calendar>>

\* select takes ctx.Done(): main returns.
LoopStops ==
    /\ mainLoop.pc = "select"
    /\ ctxDone
    /\ mainLoop' = [mainLoop EXCEPT !.pc = "returned"]
    /\ UNCHANGED <<agent, call, files, calendar, handlers>>

\* main has returned (its deferred cancel has run): the process exits.
Exit ==
    /\ mainLoop.pc = "returned"
    /\ mainLoop' = [mainLoop EXCEPT !.pc = "exited"]
    /\ UNCHANGED <<agent, call, files, calendar, handlers>>

StartReply == <<"Hello! I'm an AI assistant">>
HelpReply == <<"Available commands:">>
UnknownReply == <<"Unknown command. Try /help">>
AuthFailedReply == <<"warning: ", "failed">>
AuthConnectedReply == <<"Google Calendar is already connected!">>
AuthLinkReply == <<"To connect Google Calendar:">>
AuthCodeMissingReply ==
    <<"Please provide the authorization code: /authcode YOUR_CODE">>
AuthCodeFailedReply == <<"Authentication failed: ", "failed">>
AuthCodeReply == <<"Google Calendar connected!">>

InitOutcomes == {"error", "connected", "url"}

\* The switch of handleMessage for the commands; outcome is what the
\* calendar tool returned to /auth or /authcode.
CommandReply(message, outcome) ==
    CASE message.Command = "start" -> StartReply
      [] message.Command = "help" -> HelpReply
      [] message.Command = "auth" ->
            (CASE outcome = "error" -> AuthFailedReply
               [] outcome = "connected" -> AuthConnectedReply
               [] OTHER -> AuthLinkReply)
      [] message.Command = "authcode" ->
            (IF message.Arguments = <<>> THEN AuthCodeMissingReply
             ELSE IF outcome = "error" THEN AuthCodeFailedReply
             ELSE AuthCodeReply)
      [] OTHER -> UnknownReply

\* handleMessage up to its reply, or to its call of Chat for a message that
\* is no command.
HandleCommand(h, outcome) ==
    /\ Alive
    /\ h \in DOMAIN handlers
    /\ handlers[h].pc = "switch"
    /\ handlers' =
          IF handlers[h].message.Command = ""
          THEN [handlers EXCEPT ![h].pc = "Chat"]
          ELSE [handlers EXCEPT
                  ![h].pc = "Send",
                  ![h].reply = CommandReply(handlers[h].message, outcome)]
    /\ UNCHANGED <<agent, call, files, calendar, mainLoop>>

ChatOutcomes == {"answer", "tools", "error"}

\* What a round of Chat does under the handler's context: after
\* maxToolCalls rounds Chat returns the bound error; a sendRequest under a
\* context that is done fails; otherwise it fails, or is answered by a text
\* or by invocations, which are executed.
ChatRound(h, outcome) ==
    /\ Alive
    /\ h \in DOMAIN handlers
    /\ handlers[h].pc = "Chat"
    /\ handlers' =
          IF handlers[h].i >= maxToolCalls
          THEN [handlers EXCEPT
                  ![h].pc = "Send",
                  ![h].reply = Reply(Return(<<>>, BoundError))]
          ELSE IF Done(handlers[h].ctx) \/ outcome = "error"
          THEN [handlers EXCEPT
                  ![h].pc = "Send",
                  ![h].i = handlers[h].i + 1,
                  ![h].reply =
                     Reply(Return(<<>>, Errorf(<<"calling Ollama: failed">>)))]
          ELSE IF outcome = "answer"
          THEN [handlers EXCEPT
                  ![h].pc = "Send",
                  ![h].i = handlers[h].i + 1,
                  ![h].reply = Reply(Return(<<"It is noon.">>, Nil))]
          ELSE [handlers EXCEPT ![h].i = handlers[h].i + 1]
    /\ UNCHANGED <<agent, call, files, calendar, mainLoop>>

\* bot.Send(msg): one attempt, whose error is logged.
Send(h) ==
    /\ Alive
    /\ h \in DOMAIN handlers
    /\ handlers[h].pc = "Send"
    /\ handlers' = [handlers EXCEPT ![h].pc = "returned",
                                    ![h].sends = handlers[h].sends + 1]
    /\ UNCHANGED <<agent, call, files, calendar, mainLoop>>

HandlerStep(h) ==
    \/ \E outcome \in InitOutcomes : HandleCommand(h, outcome)
    \/ \E outcome \in ChatOutcomes : ChatRound(h, outcome)
    \/ Send(h)

NextShutdown ==
    \/ Signal
    \/ Shutdown
    \/ \E update \in Updates : ReceiveUpdate(update)
    \/ LoopStops
    \/ Exit
    \/ \E h \in 1..MaxUpdates : HandlerStep(h)

SpecShutdown == Init /\ [][NextShutdown]_vars

\* Every goroutine of the process takes its next step while the process
\* runs, and select takes a case that stays ready.
FairSpecShutdown ==
    /\ SpecShutdown
    /\ WF_vars(Shutdown)
    /\ WF_vars(LoopStops)
    /\ WF_vars(Exit)
    /\ \A h \in 1..MaxUpdates : WF_vars(HandlerStep(h))

(***************************************************************************)
(* Properties of the agent loop.                                           *)
(***************************************************************************)
HasFunctionTag(s) == Contains(s, <<FN>>)
HasParameterTag(s) == Contains(s, <<PM>>)
HasMarkup(s) == HasFunctionTag(s) \/ HasParameterTag(s)

\* The positions of the assistant messages that carry structured invocations.
StructuredAt == {p \in DOMAIN messages : Len(messages[p].ToolCalls) > 0}

\* The error Chat returned is that of a failed sendRequest, or the bound error
\* after maxToolCalls rounds.
TransportOrBound ==
    \/ transportFailed /\ ret.err \in TransportErrors
    \/ ~transportFailed /\ ret.err = BoundError /\ i = maxToolCalls

\* C1: when every sendRequest was answered by a response with structured
\* invocations, Chat ends with the bound error after exactly maxToolCalls
\* calls; it never makes more than maxToolCalls calls, and (its blocking calls
\* returning) it always returns.
C1_BoundAfterExactlyMaxCalls ==
    /\ [](calls <= maxToolCalls)
    /\ []((pc = "done" /\ Cardinality(StructuredAt) = calls)
             => /\ ret = Return(<<>>, BoundError)
                /\ calls = maxToolCalls)
    /\ <>(pc = "done")

C1_Witness ==
    /\ pc = "done"
    /\ Cardinality(StructuredAt) = calls
    /\ calls = maxToolCalls
    /\ ret.err = BoundError

\* C3: the tool-role messages of a structured round follow its assistant
\* message in the order of the invocations, each with the id of its own
\* invocation; the block is incomplete only while that round is dispatching.
C3_ToolMessagesInInvocationOrder ==
    \A p \in StructuredAt :
        LET tcs == messages[p].ToolCalls
        IN  /\ \A j \in 1..Len(tcs) :
                  p + j <= Len(messages)
                     => /\ messages[p + j].Role = "tool"
                        /\ messages[p + j].ToolCallID = tcs[j].ID
            /\ p + Len(tcs) > Len(messages)
                  => /\ pc \in {"dispatch", "executing"}
                     /\ Len(messages) = p + k - 1

C3_Witness ==
    \E p \in StructuredAt :
        /\ messages[p] = ThreeCalls
        /\ p + 3 <= Len(messages)
        /\ messages[p + 1] = Message("tool", ErrorText(Failed.err), <<>>, "A")
        /\ messages[p + 2].ToolCallID = "B"
        /\ messages[p + 3] = Message("tool", Succeeded.result, <<>>, "C")

\* C4: an error returned by Execute becomes the content of the invocation's
\* tool-role message, which is in the conversation posted by the next
\* sendRequest; Chat then returns an error only for a failed sendRequest or
\* the bound, and does not return successfully in the round of the failure.
C4_ToolErrorFedBack ==
    \A n \in DOMAIN execLog :
        LET e == execLog[n]
        IN  ~e.outcome.err.isNil
               => /\ messages[e.at].Role = "tool"
                  /\ messages[e.at].Content = ErrorText(e.outcome.err)
                  /\ e.round < calls
                        => /\ Len(sent.Messages) >= e.at
                           /\ sent.Messages[e.at] = messages[e.at]
                  /\ (ret.returned /\ ~ret.err.isNil) => TransportOrBound
                  /\ (ret.returned /\ ret.err.isNil) => e.round < calls

C4_Witness ==
    /\ pc = "done"
    /\ ret.err.isNil
    /\ \E n \in DOMAIN execLog :
          /\ ~execLog[n].outcome.err.isNil
          /\ execLog[n].round < calls
          /\ sent.Messages[execLog[n].at].Content
                = ErrorText(execLog[n].outcome.err)

\* C5: a structured invocation of a tool that is not registered gets a
\* tool-role message holding "unknown tool: <name>"; no Execute runs for it,
\* Chat returns no error because of it, and the round is followed by another
\* sendRequest (or the bound).
C5_UnknownToolNotice ==
    \A p \in StructuredAt :
        LET tcs == messages[p].ToolCalls
        IN  \A j \in 1..Len(tcs) :
               (tcs[j].Name \notin DOMAIN registry /\ p + j <= Len(messages))
                  => /\ messages[p + j].Role = "tool"
                     /\ Contains(messages[p + j].Content,
                                 <<"unknown tool:", SP>> \o tcs[j].Name)
                     /\ \A n \in DOMAIN execLog : execLog[n].at # p + j
                     /\ (ret.returned /\ ~ret.err.isNil) => TransportOrBound
                     /\ (ret.returned /\ ret.err.isNil)
                           => Len(sent.Messages) >= p + Len(tcs)

C5_Witness ==
    /\ pc = "done"
    /\ ret.err.isNil
    /\ \E p \in StructuredAt :
          /\ messages[p] = ThreeCalls
          /\ p + 2 <= Len(messages)
          /\ messages[p + 2].Content
                = <<"Error:", SP, "unknown tool:", SP, "nope">>

\* An unterminated fragment: a function tag with no '>' after it, or a
\* parameter tag with no '>' or no closing tag after it.
HasUnterminatedFragment(s) ==
    \E p \in DOMAIN s :
        LET rest == SubSeq(s, p + 1, Len(s))
        IN  \/ s[p] = FN /\ ~Contains(rest, <<GT>>)
            \/ s[p] = PM /\ ~Contains(rest, <<GT>>)
            \/ s[p] = PM /\ ~Contains(rest, <<CP, GT>>)

\* The first response has come, with no structured invocation and no markup
\* in its content.
FirstResponseIsPlain ==
    /\ received = 1
    /\ Len(resp.ToolCalls) = 0
    /\ ~HasMarkup(resp.Content)

\* C2 as stated: a first response without invocations and without markup is
\* returned, white space trimmed, after exactly one sendRequest.
C2_PassThroughTrimmed ==
    FirstResponseIsPlain
       => /\ pc = "done"
          /\ calls = 1
          /\ ret = Return(TrimSpace(resp.Content), Nil)

\* C2, amended: a first response without invocations and without markup is
\* returned as it is (white space included), with no error, after exactly one
\* sendRequest.
C2_PassThroughUnchanged ==
    FirstResponseIsPlain
       => /\ pc = "done"
          /\ calls = 1
          /\ ret = Return(resp.Content, Nil)

C2_Witness ==
    /\ FirstResponseIsPlain
    /\ resp.Content = <<SP, "Hi", SP>>
    /\ ret = Return(<<SP, "Hi", SP>>, Nil)
    /\ calls = 1

\* The tool executions that came from the textual fallback path.
ParsedRuns == {n \in DOMAIN execLog : execLog[n].path = "parsed"}

C7_MalformedFallbackIsMarkupFree ==
    (/\ ret.returned
     /\ ret.err.isNil
     /\ Len(resp.ToolCalls) = 0
     /\ HasUnterminatedFragment(resp.Content))
       => /\ ret.text # <<>>
          /\ ~HasMarkup(ret.text)

\* C8: Chat returns an error only when a sendRequest failed or the loop ran
\* maxToolCalls rounds.
C8_OnlyTransportOrBound ==
    (ret.returned /\ ~ret.err.isNil) => TransportOrBound

\* An unknown tool, an undecodable payload and a failed Execute were all fed
\* back, and Chat returned without error.
C8_Witness ==
    /\ pc = "done"
    /\ ret.err.isNil
    /\ \E p \in StructuredAt :
          /\ messages[p] = BadArgsCalls
          /\ p + 3 <= Len(messages)
          /\ messages[p + 1].Content
                = <<"Error:", SP, "parsing tool arguments:", SP,
                    "invalid character">>
          /\ messages[p + 2].Content
                = <<"Error:", SP, "unknown tool:", SP, "nope">>
          /\ messages[p + 3].Content = ErrorText(Failed.err)

\* C9: once a sendRequest has failed, Chat has returned that error and no
\* text; the failed call was the last one (no retry) and nothing was appended
\* or executed after it.
C9_TransportFailureAborts ==
    transportFailed
       => /\ pc = "done"
          /\ ret.returned
          /\ ret.text = <<>>
          /\ ret.err \in TransportErrors
          /\ calls = received + 1
          /\ sent.Messages = messages
          /\ \A n \in DOMAIN execLog : execLog[n].round < calls

C9_Witness ==
    /\ transportFailed
    /\ calls = 3
    /\ execLog # <<>>

\* The rounds with tool calls: one assistant message each.
ToolRounds ==
    Cardinality({p \in DOMAIN messages :
                    \/ messages[p].Role = "assistant"
                    \/ Len(messages[p].ToolCalls) > 0})

\* C10: when Chat returns without error after k rounds with tool calls, then
\* k < maxToolCalls, it made k + 1 sendRequest calls and it returns the
\* sanitized content of the last response; after one structured invocation of
\* one tool that is two calls and the second response.
C10_CallsAreRoundsPlusOne ==
    (ret.returned /\ ret.err.isNil)
       => /\ ToolRounds < maxToolCalls
          /\ calls = ToolRounds + 1
          /\ received = calls
          /\ ret.text = cleanResponse(resp.Content)
          /\ (Len(messages) = 4 /\ messages[3] = TimeCall)
                => calls = 2 /\ messages[4].ToolCallID = "T"

C10_Witness ==
    /\ pc = "done"
    /\ ret = Return(PlainAnswer.Content, Nil)
    /\ calls = 2
    /\ messages = << Message("system", systemPrompt, <<>>, ""),
                     Message("user", userMessage, <<>>, ""),
                     TimeCall,
                     Message("tool", Succeeded.result, <<>>, "T") >>

\* s is t or a beginning of t: t is s extended only by appended elements.
IsPrefixOf(s, t) ==
    /\ Len(s) <= Len(t)
    /\ SubSeq(t, 1, Len(s)) = s

\* The positions of the messages with the given role.
WithRole(role) == {p \in DOMAIN messages : messages[p].Role = role}

\* C11: from the start of Chat on, the conversation begins with the system
\* message followed by the user message holding the utterance, and holds no
\* other system or user message; the conversation only grows by appending,
\* and the sequence posted by each sendRequest is the one posted by the
\* previous sendRequest with messages appended.
C11_ConversationOnlyGrows ==
    /\ [](pc # "idle"
            => /\ Len(messages) >= 2
               /\ messages[1] = Message("system", systemPrompt, <<>>, "")
               /\ messages[2] = Message("user", userMessage, <<>>, "")
               /\ WithRole("system") = {1}
               /\ WithRole("user") = {2}
               /\ IsPrefixOf(sent.Messages, messages))
    /\ [][pc # "idle" => IsPrefixOf(messages, messages')]_vars
    /\ [][IsPrefixOf(sent.Messages, sent'.Messages)]_vars

C11_Witness ==
    /\ calls = 3
    /\ pc = "sending"
    /\ Len(sent.Messages) = 8
    /\ sent.Messages[3] = ThreeCalls
    /\ sent.Messages[7] = TextCall

\* The message at p is the assistant message that precedes the message at q.
AssistantBefore(p, q) ==
    /\ messages[p].Role = "assistant"
    /\ \A r \in (p + 1)..q : messages[r].Role # "assistant"

RunsOfRound == {n \in DOMAIN execLog : execLog[n].round = calls}

\* C13: when the last response carries structured invocations, its content
\* was not parsed for a textual call, no Execute runs or ran in its round for
\* a parsed call, and every Execute of the round is that of one of the
\* structured invocations with its decoded arguments, at most one each.
C13_StructuredPathAuthoritative ==
    (received = calls /\ Len(resp.ToolCalls) > 0)
       => /\ parsed = NotParsed
          /\ pc # "parsedExec"
          /\ Cardinality(RunsOfRound) <= Len(resp.ToolCalls)
          /\ \A n \in RunsOfRound :
                /\ execLog[n].path = "structured"
                /\ \E j \in DOMAIN resp.ToolCalls :
                      /\ resp.ToolCalls[j].Name = execLog[n].name
                      /\ resp.ToolCalls[j].Arguments.object = execLog[n].args

\* The round of a response with three structured invocations and a textual
\* call of bash in its content is over: only the third invocation ran.
C13_Witness ==
    /\ received = calls
    /\ resp = BadArgsCalls
    /\ parseXMLToolCall(resp.Content).ok
    /\ pc = "loop"
    /\ \E n \in RunsOfRound :
          /\ RunsOfRound = {n}
          /\ execLog[n].name = TimeName
          /\ execLog[n].path = "structured"

\* The last response carries no structured invocation and its content holds a
\* well-formed textual call of a tool that is not registered.
UnknownTextualCall ==
    /\ received = calls
    /\ received > 0
    /\ Len(resp.ToolCalls) = 0
    /\ parsed.ok
    /\ ~Get(registry, parsed.toolName).ok

\* C14: after a well-formed textual call of a tool that is not registered,
\* Chat has not returned in that round and the conversation ends with a
\* tool-role message holding the unknown-tool notice.
C14_UnknownTextualCallFedBack ==
    UnknownTextualCall
       => /\ ~ret.returned
          /\ messages[Len(messages)].Role = "tool"
          /\ Contains(messages[Len(messages)].Content,
                      <<"unknown tool:", SP>> \o parsed.toolName)

\* The last response carries no structured invocation and its content holds
\* an unterminated fragment.
UnterminatedResponse ==
    /\ received = calls
    /\ received > 0
    /\ Len(resp.ToolCalls) = 0
    /\ HasUnterminatedFragment(resp.Content)

\* C15: when the content of the last response holds an unterminated fragment
\* (also after a well-formed parameter), no Execute runs or ran in its round
\* and Chat has returned with that response as the final one.
C15_UnterminatedMeansNoToolCall ==
    UnterminatedResponse
       => /\ pc = "done"
          /\ ret.returned
          /\ ret.err.isNil
          /\ RunsOfRound = {}

\* The content holds a function tag closed by '>' and no parameter is
\* captured after it.
ZeroParameterMatch(content) ==
    LET nameStart == Index(content, <<FN>>) + Len(<<FN>>)
        nameEnd   == Index(Slice(content, nameStart, Len(content)), <<GT>>)
    IN  /\ HasFunctionTag(content)
        /\ nameEnd # -1
        /\ parseParameters(Slice(content, nameStart + nameEnd, Len(content)),
                           EmptyMap) = EmptyMap

\* C16: when the last response carries no structured invocation and its
\* content matches a function tag with zero captured parameters, no tool call
\* is found, no Execute runs or ran in its round, and Chat has returned the
\* sanitized content (which holds no function tag) without error.
C16_ZeroParametersIsNoToolCall ==
    (/\ received = calls
     /\ received > 0
     /\ Len(resp.ToolCalls) = 0
     /\ ZeroParameterMatch(resp.Content))
       => /\ ~parsed.ok
          /\ RunsOfRound = {}
          /\ pc = "done"
          /\ ret = Return(cleanResponse(resp.Content), Nil)
          /\ ~HasFunctionTag(ret.text)

\* The textual call names the registered, parameterless current-time tool.
C16_Witness ==
    /\ received = calls
    /\ resp = TextZeroParams
    /\ Get(registry, TimeName).ok
    /\ ZeroParameterMatch(resp.Content)
    /\ pc = "done"
    /\ ret = Return(CouldNotComplete, Nil)
    /\ RunsOfRound = {}

\* C17: once the context is cancelled during Chat, Chat eventually returns an
\* error; no sendRequest returns a response after the cancellation, so at most
\* one more sendRequest is started and Chat completes no round after the one
\* it is in.
C17_CancelledChatReturnsError ==
    /\ [](ctxDone => <>(pc = "done" /\ ret.returned /\ ~ret.err.isNil))
    /\ []((ctxDone /\ pc = "done") => (ret.returned /\ ~ret.err.isNil))
    /\ [][ctxDone => (received' = received /\ calls' <= received + 1)]_vars
    /\ [][(ctxDone /\ i' # i) => (pc' = "loop" /\ calls = received)]_vars

\* Cancelled in the first round, which had tool calls: the round was finished
\* and the second sendRequest failed.
C17_Witness ==
    /\ ctxDone
    /\ pc = "done"
    /\ transportFailed
    /\ ~ret.err.isNil
    /\ calls = 2
    /\ received = 1
    /\ i = 1
    /\ Len(execLog) = 2

\* The sendRequest calls that were started and have not returned.
InFlight == calls - received - (IF transportFailed THEN 1 ELSE 0)

\* The Execute calls that were started and have not returned.
Executing == IF pc \in {"executing", "parsedExec"} THEN 1 ELSE 0

\* C18: at most one blocking call (sendRequest or Execute) is outstanding; a
\* sendRequest is in flight only while Chat waits for it; and while the
\* Execute of the k-th invocation of a round runs, the conversation ends with
\* the round's assistant message and the tool-role messages of invocations
\* 1 to k - 1, in that order.
C18_OneBlockingCallAtATime ==
    /\ InFlight \in {0, 1}
    /\ InFlight + Executing <= 1
    /\ InFlight = 1 <=> pc = "sending"
    /\ pc = "executing"
          => /\ k \in 1..Len(resp.ToolCalls)
             /\ Len(messages) - k + 1 \in StructuredAt
             /\ messages[Len(messages) - k + 1] = resp
             /\ \A j \in 1..(k - 1) :
                   LET m == messages[Len(messages) - k + 1 + j]
                   IN  /\ m.Role = "tool"
                       /\ m.ToolCallID = resp.ToolCalls[j].ID
    /\ \A n \in DOMAIN execLog :
          /\ execLog[n].at <= Len(messages)
          /\ n > 1 => execLog[n - 1].at < execLog[n].at

\* The Execute of the third invocation of a round runs: the results of the
\* first two are in the conversation.
C18_Witness ==
    /\ pc = "executing"
    /\ resp = ThreeCalls
    /\ k = 3
    /\ calls = 2
    /\ InFlight = 0
    /\ messages[Len(messages) - 1].ToolCallID = "A"
    /\ messages[Len(messages)].ToolCallID = "B"

\* The positions in a conversation of the messages with one of the roles.
RolesAt(msgs, roles) == {p \in DOMAIN msgs : msgs[p].Role \in roles}

\* The conversation of the invocation with locals L holds only what that
\* invocation put there: the system message, its own utterance, then as many
\* assistant messages as responses with tool calls it received, beginning with
\* the conversation it posted last, and one tool-role message for each of its
\* own tool executions, holding that execution's result.
OwnConversation(L) ==
    L.pc # "idle"
       => /\ Len(L.messages) >= 2
          /\ L.messages[1] = Message("system", systemPrompt, <<>>, "")
          /\ L.messages[2] = Message("user", L.userMessage, <<>>, "")
          /\ RolesAt(L.messages, {"system", "user"}) = {1, 2}
          /\ IsPrefixOf(L.sent.Messages, L.messages)
          /\ Cardinality(RolesAt(L.messages, {"assistant"}))
                = L.i + (IF L.pc \in {"dispatch", "executing"} THEN 1 ELSE 0)
          /\ Cardinality(RolesAt(L.messages, {"assistant"})) <= L.received
          /\ Cardinality(RolesAt(L.messages, {"tool"})) = Len(L.execLog)
          /\ \A n \in DOMAIN L.execLog :
                LET e == L.execLog[n]
                IN  /\ e.at <= Len(L.messages)
                    /\ L.messages[e.at].Role = "tool"
                    /\ L.messages[e.at].Content
                          = (IF e.outcome.err.isNil THEN e.outcome.result
                             ELSE ErrorText(e.outcome.err))
                    /\ L.messages[e.at - 1].Role = "assistant"
                    /\ L.messages[e.at - 1].Content
                          \in {TimeCall.Content, TextCall.Content}

\* C19: in every interleaving of two Chat invocations (one after the other
\* included), the conversation of each holds only its own system message, its
\* own utterance, its own responses and its own tool results.
C19_ConversationsAreSeparate ==
    /\ OwnConversation(Locals)
    /\ OwnConversation(parked)

\* Both invocations are past their first tool round, with different
\* utterances and different tool calls.
C19_Witness ==
    /\ userMessage = <<"what time is it">>
    /\ parked.userMessage = <<"list my files">>
    /\ pc = "sending"
    /\ parked.pc = "sending"
    /\ Len(messages) = 4
    /\ Len(parked.messages) = 4
    /\ messages[3] = TimeCall
    /\ parked.messages[3] = TextCall

(***************************************************************************)
(* Properties of the registry.                                             *)
(***************************************************************************)
\* The names looked up: those of main, the new one, and one that is never
\* registered.
LookedUpNames ==
    {StartupTools[p].name : p \in DOMAIN StartupTools}
       \cup {NewName, UnknownName}

\* The Register calls made with a tool of the given name.
RegistrationsOf(name) == {p \in DOMAIN regLog : regLog[p].name = name}

\* C20: for every name, Get finds a tool exactly when Register was called
\* with a tool of that name, and then returns the tool of the latest such
\* call.
C20_GetReturnsLastRegistered ==
    \A name \in LookedUpNames :
        LET got == Get(registry, name)
        IN  /\ got.ok <=> RegistrationsOf(name) # {}
            /\ got.ok
                  => \E p \in RegistrationsOf(name) :
                        /\ \A q \in RegistrationsOf(name) : q <= p
                        /\ got.tool = regLog[p]

\* bash was registered again twice, the new name never: Get returns the last
\* bash, still the current-time tool of main, and nothing for the new name.
C20_Witness ==
    /\ Len(regLog) = Len(StartupTools) + 2
    /\ regLog[Len(regLog) - 1]
          = ToolOf(BashName, <<"second">>, Schema({<<"second">>}))
    /\ regLog[Len(regLog)]
          = ToolOf(BashName, <<"first">>, Schema({<<"first">>}))
    /\ Get(registry, BashName)
          = [tool |-> ToolOf(BashName, <<"first">>, Schema({<<"first">>})),
             ok |-> TRUE]
    /\ Get(registry, TimeName) = [tool |-> Tool(TimeName), ok |-> TRUE]
    /\ ~Get(registry, NewName).ok

\* The tools of the latest Register call of each name.
LatestRegistered ==
    {regLog[p] : p \in {q \in DOMAIN regLog :
                            \A r \in RegistrationsOf(regLog[q].name) : r <= q}}

\* The schema bundle entry of a tool.
BundleEntry(tool) ==
    [type |-> "function",
     function |-> [name |-> tool.name, description |-> tool.description,
                   parameters |-> tool.parameters]]

\* C21: All and ToOllamaFormat return one entry per registered name, that of
\* the tool registered last under it, and the bundle a sendRequest posts is
\* the one of the registry at the time of the call.
C21_BundleReflectsRegistry ==
    /\ [](/\ All(registry) = LatestRegistered
          /\ Cardinality(All(registry)) = Cardinality(DOMAIN registry)
          /\ ToOllamaFormat(registry)
                = {BundleEntry(tool) : tool \in LatestRegistered}
          /\ Cardinality(ToOllamaFormat(registry))
                = Cardinality(DOMAIN registry))
    /\ [][calls' = calls + 1
             => sent'.Tools = {BundleEntry(tool) : tool \in LatestRegistered}]_vars

\* The second request of a Chat invocation posts a bundle with a tool that
\* was registered after the first request, under a name that was taken.
C21_Witness ==
    /\ calls = 2
    /\ pc = "sending"
    /\ Len(regLog) = Len(StartupTools) + 1
    /\ regLog[Len(regLog)]
          = ToolOf(BashName, <<"second">>, Schema({<<"second">>}))
    /\ BundleEntry(regLog[Len(regLog)]) \in sent.Tools
    /\ BundleEntry(Tool(BashName)) \notin sent.Tools
    /\ Cardinality(sent.Tools) = Len(StartupTools)

\* A Chat invocation has started.
ChatStarted == pc # "idle" \/ parked.pc # "idle"

\* C22: when a Chat invocation starts, main has made all its Register calls;
\* from then on the registry holds the tools of main and no step changes it
\* or calls Register, and every request posts the bundle of those tools.
C22_RegistryFixedBeforeChat ==
    /\ [](ChatStarted
            => /\ regLog = StartupTools
               /\ registry = RegisterAll(NewRegistry, StartupTools)
               /\ calls > 0 => sent.Tools = ToOllamaFormat(registry))
    /\ [][ChatStarted => (registry' = registry /\ regLog' = regLog)]_vars

\* Two Chat invocations have returned over the registry of main.
C22_Witness ==
    /\ pc = "done"
    /\ parked.pc = "done"
    /\ Len(execLog) = 1
    /\ Len(parked.execLog) = 1
    /\ regLog = StartupTools
    /\ Cardinality(DOMAIN registry) = 6

\* C23: when Chat returns the bound error, that error is not a transport
\* error, no text comes with it, and the reply to the user differs from the
\* reply for a transport error (it does not tell of an unavailable backend).
C23_BoundErrorHasItsOwnReply ==
    (pc = "done" /\ ret.returned /\ ret.err = BoundError)
       => /\ ret.err \notin TransportErrors
          /\ ret.text = <<>>
          /\ \A e \in TransportErrors :
                Reply(ret) # Reply(Return(<<>>, e))
          /\ Reply(ret) # SorryReply

(***************************************************************************)
(* Properties of the tools.                                                *)
(***************************************************************************)
\* A bound that allows two streams cut at the largest limit, with their
\* notes, labels and closing lines.
ToolResultBound == 2 * (maxOCIOutput + 23) + 100

\* C24: the text a tool returns for a subprocess is not longer than a fixed
\* bound, whatever the subprocess wrote, and a text that shows a cut stream
\* carries a truncation note for it.
C24_ResultsBoundedAndNoted ==
    run # NoRun
       => /\ run.result.text.len <= ToolResultBound
          /\ run.result.text.notes >= run.result.text.cut

\* C25: when the timeout of a tool's subprocess fires, that timeout is
\* shorter than the one of the agent's HTTP client and the tool returns, with
\* no error, a text that reports the timeout.
C25_TimeoutIsGraceful ==
    (run # NoRun /\ run.exit = "timeout")
       => /\ ToolTimeout(run.tool) < clientTimeout
          /\ run.result.err.isNil
          /\ run.result.text.timeoutNote

(***************************************************************************)
(* Properties of the configuration.                                        *)
(***************************************************************************)
\* C26: for every variable with a documented default, the loaded
\* configuration holds the documented default when the variable is unset or
\* empty and the variable's value otherwise.
C26_LoadYieldsDocumentedDefaults ==
    cfg.loaded
       => \A key \in DefaultedKeys :
             cfg.config[key] =
                 IF Getenv(cfg.environ, key) = ""
                 THEN DocumentedDefaults[key]
                 ELSE cfg.environ[key].value

(***************************************************************************)
(* Properties of the loop, continued.                                      *)
(***************************************************************************)
\* The rounds of each path so far: a structured round has its assistant
\* message in the conversation, a textual round its execution in the log.
StructuredRounds == Cardinality(StructuredAt)

TextualRounds ==
    Cardinality({n \in DOMAIN execLog : execLog[n].path = "parsed"})

\* C27: the rounds of both paths are counted by the one loop counter (the
\* round being dispatched is counted when it ends), Chat never makes more than
\* maxToolCalls sendRequest calls, a bound error comes after maxToolCalls rounds
\* of either path, and (its blocking calls returning) Chat always returns.
C27_MixedRoundsShareTheBound ==
    /\ [](calls <= maxToolCalls)
    /\ [](i = StructuredRounds + TextualRounds
                - (IF pc \in {"dispatch", "executing"} THEN 1 ELSE 0))
    /\ []((pc = "done" /\ ret.err = BoundError)
             => StructuredRounds + TextualRounds = maxToolCalls)
    /\ <>(pc = "done")

C27_Witness ==
    /\ pc = "done"
    /\ ret.err = BoundError
    /\ calls = maxToolCalls
    /\ StructuredRounds > 0
    /\ TextualRounds > 0

\* The structured round whose invocations are being dispatched.
InProgress(p) ==
    /\ pc \in {"dispatch", "executing"}
    /\ \A q \in StructuredAt : q <= p

\* The executions whose tool-role message is at position q.
ExecutionsAt(q) == {n \in DOMAIN execLog : execLog[n].at = q}

\* C28: a structured round with n invocations is followed by exactly n
\* tool-role messages (by k - 1 while invocation k is being resolved); Execute
\* has returned once for each resolved invocation of a registered tool with
\* decodable arguments, whatever became of the invocations before it, and
\* never for another one.
C28_EveryInvocationResolvedOnce ==
    \A p \in StructuredAt :
        LET tcs      == messages[p].ToolCalls
            n        == Len(tcs)
            answered == IF InProgress(p) THEN k - 1 ELSE n
        IN  /\ Len(messages) >= p + answered
            /\ InProgress(p) => Len(messages) = p + answered
            /\ \A j \in 1..answered : messages[p + j].Role = "tool"
            /\ Len(messages) > p + n => messages[p + n + 1].Role # "tool"
            /\ \A j \in 1..n :
                  Cardinality(ExecutionsAt(p + j))
                     = IF j <= answered /\ executeTool(registry, tcs[j]).run
                       THEN 1 ELSE 0

\* A finished round of three invocations: the first failed in Execute, the
\* second named an unknown tool, and the third was executed all the same.
C28_Witness ==
    \E p \in StructuredAt :
        /\ messages[p] = ThreeCalls
        /\ ~InProgress(p)
        /\ Len(messages) > p + 3
        /\ messages[p + 4].Role = "assistant"
        /\ \E a \in ExecutionsAt(p + 1) : execLog[a].outcome = Failed
        /\ ExecutionsAt(p + 2) = {}
        /\ \E c \in ExecutionsAt(p + 3) : execLog[c].name = BashName

\* C29: what Chat returns is either an error with an empty text or a text
\* with no error; the text is the one made from the last response, which
\* carried no structured invocation.
C29_NoPartialAnswer ==
    ret.returned
       => /\ ~ret.err.isNil => ret.text = <<>>
          /\ ret.text # <<>> => ret.err.isNil
          /\ ret.err.isNil
                => /\ FallbackPath(resp)
                   /\ ret.text = cleanResponse(resp.Content)

\* Chat returned the bound error, with no text, after rounds whose responses
\* had content and whose tools returned results.
C29_Witness ==
    /\ pc = "done"
    /\ ret.err = BoundError
    /\ ret.text = <<>>
    /\ cleanResponse(resp.Content) # <<>>
    /\ \E q \in DOMAIN messages :
          messages[q].Role = "tool" /\ messages[q].Content = Succeeded.result

\* The text fed back for a payload that does not decode.
DecodingErrorText(arguments) ==
    ErrorText(Errorf(<<"parsing tool arguments:", SP>>
                     \o Unmarshal(arguments).err.msg))

\* C30: for a structured invocation of a registered tool that has its
\* tool-role message: if its payload does not decode, Execute was not called
\* for it, the message holds the decoding error, and Chat goes on (it returns
\* an error only for a failed sendRequest or the bound, and a text only after
\* posting the round's messages); if its payload is empty, Execute was called
\* for it with no arguments.
C30_UndecodableArgumentsFedBack ==
    \A p \in StructuredAt :
        LET tcs == messages[p].ToolCalls
        IN  \A j \in 1..Len(tcs) :
               (Get(registry, tcs[j].Name).ok /\ p + j <= Len(messages))
                  => /\ tcs[j].Arguments.raw = "malformed"
                        => /\ ExecutionsAt(p + j) = {}
                           /\ messages[p + j].Role = "tool"
                           /\ messages[p + j].Content
                                 = DecodingErrorText(tcs[j].Arguments)
                           /\ (ret.returned /\ ~ret.err.isNil)
                                 => TransportOrBound
                           /\ (ret.returned /\ ret.err.isNil)
                                 => Len(sent.Messages) >= p + Len(tcs)
                     /\ tcs[j].Arguments.raw = "empty"
                        => \E n \in ExecutionsAt(p + j) :
                              /\ execLog[n].name = tcs[j].Name
                              /\ execLog[n].args = EmptyMap

\* Chat returned a text after a round whose first invocation had a payload
\* that does not decode and whose third, with an empty payload, was executed.
C30_Witness ==
    /\ pc = "done"
    /\ ret.err.isNil
    /\ \E p \in StructuredAt :
          /\ messages[p] = BadArgsCalls
          /\ Len(messages) >= p + 3
          /\ messages[p + 1].Content
                = <<"Error:", SP, "parsing tool arguments:", SP,
                    "invalid character">>
          /\ ExecutionsAt(p + 1) = {}
          /\ \E n \in ExecutionsAt(p + 3) :
                execLog[n].name = TimeName /\ execLog[n].args = EmptyMap

\* C31: when Execute returned an error together with a result text, the
\* tool-role message of that execution is "Error: <err>" and no message of the
\* conversation holds the result text.
C31_ResultBesideErrorDiscarded ==
    \A n \in DOMAIN execLog :
        LET e == execLog[n]
        IN  (~e.outcome.err.isNil /\ e.outcome.result # <<>>)
               => /\ messages[e.at].Role = "tool"
                  /\ messages[e.at].Content = ErrorText(e.outcome.err)
                  /\ \A q \in DOMAIN messages :
                        ~Contains(messages[q].Content, e.outcome.result)

\* An execution on the structured path returned a text and an error, and its
\* message went to the model with the next request.
C31_Witness ==
    \E n \in DOMAIN execLog :
        /\ execLog[n].path = "structured"
        /\ execLog[n].outcome = Failed
        /\ Failed.result # <<>>
        /\ execLog[n].round < calls
        /\ sent.Messages[execLog[n].at].Content = <<"Error:", SP, "exit status 1">>

\* The roles of the conversation: a fixed closed set.
Roles == {"system", "user", "assistant", "tool"}

\* C32: every message of the conversation, the assistant messages taken from
\* the backend's responses included, has one of the four roles.
C32_RolesInClosedSet ==
    \A q \in DOMAIN messages : messages[q].Role \in Roles

(***************************************************************************)
(* Properties of the tools' Execute.                                       *)
(***************************************************************************)
RequiredKey(tool) ==
    IF tool = BashName THEN "command"
    ELSE IF tool = ScrapeName THEN "url"
    ELSE "operation"

RequiredMessage(tool) ==
    IF tool = BashName THEN <<"command is required">>
    ELSE IF tool = ScrapeName THEN <<"url is required">>
    ELSE <<"operation is required">>

Missing(args, key) ==
    \/ key \notin DOMAIN args
    \/ args[key].type # "string"
    \/ args[key].str = <<>>

\* C33: an Execute of bash, python, scrape or oci whose required key is
\* absent, empty or not a string returns the error that names the key, after
\* no operation on subprocesses, the network or the file system; the files of
\* the workspace are as before.
C33_RequiredKeyValidated ==
    /\ [](call # NoCall /\ Missing(call.args, RequiredKey(call.tool))
            => /\ call.result.err = Errorf(RequiredMessage(call.tool))
               /\ call.result.text = <<>>
               /\ call.ops = <<>>)
    /\ [][Missing(call'.args, RequiredKey(call'.tool)) => files' = files]_vars

\* Python was called with a number as its operation after a file was written.
C33_Witness ==
    /\ call.tool = PythonName
    /\ "operation" \in DOMAIN call.args
    /\ call.args["operation"] = JNumber
    /\ call.ops = <<>>
    /\ call.result.err = Errorf(<<"operation is required">>)
    /\ DOMAIN files # {}

\* C34: every path an Execute of the Python tool passes to the file system
\* or to a subprocess (the paths safePath returns among them) is the
\* workspace or lies below it.
C34_PathsStayInWorkspace ==
    call.tool = PythonName
       => \A n \in DOMAIN call.ops :
             Inside(workspaceDir, call.ops[n].target)

(***************************************************************************)
(* Properties of develop.                                                  *)
(***************************************************************************)
\* C35: when develop ran the tests, it reports "ALL TESTS PASSED" exactly
\* when pytest succeeded and "TESTS FAILED" exactly when it did not.
C35_ReportMatchesPytest ==
    call.tested # NoPytest
       => /\ call.result.text = <<"ALL TESTS PASSED">>
                <=> call.tested.exit = "ok"
          /\ call.result.text = <<"TESTS FAILED">>
                <=> call.tested.exit # "ok"

IsDevelop(c) ==
    /\ c.tool = PythonName
    /\ StringArg(c.args, "operation") = <<"develop">>
    /\ StringArg(c.args, "name") # <<>>

ImplPathOf(c) == Join(workspaceDir, implFile(StringArg(c.args, "name")))

TestPathOf(c) == Join(workspaceDir, testFile(StringArg(c.args, "name")))

Failed37(g) == goroutines[g].pc = "returned" /\ ~goroutines[g].ret.err.isNil

\* C37: c.service is assigned only by the goroutine that holds the mutex
\* for writing, while no goroutine holds it for reading, and is read by
\* Execute only while it holds the mutex for reading; once set it is never
\* nil again; Execute returns the text to authenticate, with no error,
\* exactly when the service it read was nil, and otherwise uses a service
\* that NewService constructed; an Init or a CompleteAuth that fails has not
\* assigned the service, and the step in which it fails does not change it.
C37_ServiceUnderMutex ==
    /\ [](\A g \in Goroutines :
            /\ goroutines[g].pc \in {"assign", "Unlock"}
                  => /\ calendarTool.mu.writer = g
                     /\ calendarTool.mu.readers = {}
            /\ goroutines[g].pc \in {"read", "RUnlock"}
                  => /\ g \in calendarTool.mu.readers
                     /\ calendarTool.mu.writer = 0
            /\ (goroutines[g].method = "Execute" /\ goroutines[g].pc = "returned")
                  => IF goroutines[g].service.isNil
                     THEN goroutines[g].ret = Return(NotAuthenticated, Nil)
                     ELSE /\ goroutines[g].ret.text # NotAuthenticated
                          /\ goroutines[g].service
                                = NewService(goroutines[g].service.token)
                          /\ ~goroutines[g].service.token.isNil
            /\ (Failed37(g) /\ goroutines[g].method # "Execute")
                  => ~goroutines[g].wrote)
    /\ [][/\ ~calendarTool.service.isNil => ~calendarTool'.service.isNil
          /\ calendarTool'.service # calendarTool.service
                => \E g \in Goroutines :
                      /\ calendarTool.mu.writer = g
                      /\ goroutines[g].pc = "assign"
          /\ \A g \in Goroutines :
                (Failed37(g)' /\ ~Failed37(g))
                   => calendarTool'.service = calendarTool.service]_vars

\* One goroutine is in Execute and has read the service another one
\* assigned, which waits for the mutex to assign it again.
C37_Witness ==
    \E g, h \in Goroutines :
        /\ At(g, "Execute", "RUnlock")
        /\ ~goroutines[g].service.isNil
        /\ goroutines[h].method = "CompleteAuth"
        /\ goroutines[h].pc = "Lock"

(***************************************************************************)
(* Properties of the shutdown.                                             *)
(***************************************************************************)
Started(n) == n \in DOMAIN handlers

Replied(n) == Started(n) /\ handlers[n].sends = 1

\* C38: a signal leads to the cancellation of the context and that to the
\* end of the update loop; a Chat that makes a round under the cancelled
\* context returns its error; and every handler that was started makes
\* exactly one call of bot.Send: never more than one, and eventually one.
C38_ShutdownCompletesHandlers ==
    /\ (mainLoop.sigChan = 1) ~> ctxDone
    /\ ctxDone ~> (mainLoop.pc # "select")
    /\ [][\A n \in DOMAIN handlers :
            (/\ ctxDone
             /\ handlers[n].pc = "Chat"
             /\ handlers'[n] # handlers[n])
               => /\ handlers'[n].pc = "Send"
                  /\ handlers'[n].reply = SorryReply]_vars
    /\ [](\A n \in DOMAIN handlers : handlers[n].sends <= 1)
    /\ \A n \in 1..MaxUpdates : [](Started(n) => <>Replied(n))

====
